---- MODULE Spec2Model ----
(***************************************************************************)
(* A model of the download-upload pipeline of anime-bot:                   *)
(*   - DownloadUploadTask.run (tasks.py), the per-batch orchestrator;      *)
(*   - Uploader.upload_file (uploader.py), the semaphore-bounded gate;     *)
(*   - AnimeDownloaderService.download_episode (downloader.py), the        *)
(*     per-episode download state machine;                                 *)
(*   - get_stream_qualities and the stream selection of download_episode;  *)
(*   - progress_cb (tasks.py), the debounce of the upload progress;        *)
(*   - load_from_cache (utils.py), the catalog snapshot;                   *)
(*   - cleanup_loop (cleanup.py), the retention sweeper, with the shutdown *)
(*     path of main (bot.py);                                              *)
(*   - validate_episode_spec and expand_episode_spec_to_list (utils.py);   *)
(*   - download_command and spec_reply_handler (bot.py);                   *)
(*   - fuzzy_score (utils.py);                                             *)
(*   - two run coroutines at once over the files of the download dir.      *)
(* Each component has its own specification over its own variables; the    *)
(* variables of the other components stay at their idle values.            *)
(***************************************************************************)
EXTENDS Integers, Sequences, FiniteSets, TLC

\* ------------------------------------------------------------------ bounds
\* Number of episodes of the batch handed to DownloadUploadTask.run.
NumEpisodes == 3
\* Number of concurrent callers (batches) of Uploader.upload_file.
NumCallers == 3
\* upload_file calls made by each caller.
MaxCalls == 2
\* Largest configured upload concurrency (settings.max_upload_concurrency).
MaxLimit == 2
\* Largest number of stream buttons on an episode's playback page.
MaxStreams == 3
\* Progress callbacks made during one upload.
MaxCallbacks == 5
\* Largest number of lines of the catalog snapshot file.
MaxLines == 2
\* Number of files under the download directory.
NumFiles == 2
\* Sweep cycles cleanup_loop starts at most.
MaxCycles == 2
\* Largest number of comma-separated tokens of an episode spec.
MaxTokens == 3
\* Longest run of filler characters in front of the word of a title.
MaxPad == 501

\* ------------------------------------------------------------- python values
\* Python's None.
None == "None"
\* metadata = None: hachoir found no parser or no extractor for the file.
NoMetadata == [kind |-> "None"]

VARIABLES
    \* --- DownloadUploadTask.run (one batch)
    episodes,             \* self.episodes: the episode numbers, in batch order
    delete_after_upload,  \* settings.delete_after_upload
    pc,                   \* position of the run coroutine
    idx,                  \* position of the for loop in self.episodes (1-based)
    res,                  \* res: the EpisodeDownloadResult of the current episode
    metadata,             \* metadata: what extractMetadata returned
    ttl,                  \* duration/2, the screenshot time
    thumb,                \* thumb: None, or the state of the thumbnail file
    media,                \* state of the local media file res.filepath
    msg,                  \* msg: the message handle returned by upload_file
    log,                  \* history: statuses emitted and collaborator calls, in order
    ledger,               \* rows committed by insert_uploaded_file
    \* --- Uploader.upload_file (several callers, one Uploader)
    limit,                \* the concurrency the Uploader was constructed with
    sem_value,            \* asyncio.Semaphore._value
    sem_waiters,          \* asyncio.Semaphore._waiters, FIFO
    g_pc,                 \* position of each caller inside upload_file
    g_calls,              \* upload_file calls each caller has completed
    \* --- AnimeDownloaderService.download_episode (one call)
    dl_pc,                \* position inside download_episode
    dl_quality,           \* quality: the preference string
    dl_audio,             \* audio: the preference string
    dl_streams,           \* streams, as returned by get_stream_qualities
    dl_selected,          \* selected_stream
    dl_stream_qual,       \* stream_qual
    dl_stream_lang,       \* stream_lang
    dl_tmpdir,            \* the working directory made by tempfile.mkdtemp
    dl_result,            \* what download_episode returned
    dl_calls,             \* provider operations invoked so far, in order
    \* --- stream selection (get_stream_qualities + selection, as a function)
    sel_pc,
    sel_page,             \* the buttons of the playback page, in page order
    sel_quality,          \* quality preference string
    sel_audio,            \* audio preference string
    sel_streams,          \* result of get_stream_qualities
    sel_pool,             \* audio_streams
    sel_out,              \* selected_stream, or the early return value
    \* --- progress_cb (the callbacks of one upload)
    p_pc,                 \* "uploading" until the last part was sent
    p_total,              \* total: the size of the file
    p_current,            \* current: what was sent so far
    p_now,                \* time.time(), in whole seconds
    last_update,          \* last_update: time and percent of the last accepted update
    p_accepted,           \* the accepted updates, in order
    p_calls,              \* progress callbacks made so far
    p_delivered,          \* the progress messages status_callback received
    \* --- load_from_cache (one call)
    c_pc,                 \* position inside load_from_cache
    c_file,               \* the snapshot file at cache_path: absent, or age and lines
    c_events,             \* what the call did so far, in order
    c_result,             \* what load_from_cache returned
    \* --- cleanup_loop and the shutdown path of main
    s_pc,                 \* position of the cleanup_loop task
    stop_event,           \* stop_event.is_set()
    s_mtime,              \* modification time of each file
    s_name,               \* file name (basename) of each file
    s_archive,            \* per file name, the files written to that archive entry, in order
    s_where,              \* where each file is: download dir, archive dir, or deleted
    s_visit,              \* what the current cycle met at each file it listed
    s_now,                \* now: time.time() at the start of the current cycle
    s_clock,              \* time.time()
    s_next,               \* position of the walk over the listed files
    s_cycles,             \* sweep cycles started so far
    m_pc,                 \* position of main
    \* --- validate_episode_spec and expand_episode_spec_to_list
    ep_pc,                \* "input", "validated", "expanded"
    ep_tokens,            \* the tokens the spec string was typed from
    ep_spec,              \* spec: the string, as characters
    ep_valid,             \* result of validate_episode_spec
    ep_out,               \* result of expand_episode_spec_to_list
    \* --- download_command and spec_reply_handler (one message)
    h_pc,                 \* position of the handler
    h_handler,            \* which handler the message is for
    h_text,               \* the spec as typed: group(2) of /download, or raw_text
    h_spec,               \* spec
    h_session,            \* SESSION_STORE.get(chat_id) is set
    h_eps,                \* eps: the episode numbers available
    h_chosen,             \* chosen
    h_events,             \* replies, calls and creations of the handler, in order
    \* --- fuzzy_score (one call)
    fz_pc,                \* "input", "scored"
    fz_title,             \* title, as characters
    fz_query,             \* query, as characters
    fz_score,             \* what fuzzy_score returned
    \* --- DownloadUploadTask.run, two tasks at once and the download directory
    b_title,              \* self.anime_title of each task
    b_eps,                \* self.episodes of each task
    b_pc,                 \* position of each run coroutine
    b_idx,                \* position of each for loop
    b_file,               \* res.filepath of the episode each task is at
    b_delete,             \* settings.delete_after_upload
    b_fs,                 \* the media files of settings.download_dir: absent, or who wrote it
    b_ops                 \* the writes, uploads and removals of media files so far

orchVars == <<episodes, delete_after_upload, pc, idx, res, metadata, ttl, thumb, media, msg,
              log, ledger>>
gateVars == <<limit, sem_value, sem_waiters, g_pc, g_calls>>
dlVars == <<dl_pc, dl_quality, dl_audio, dl_streams, dl_selected, dl_stream_qual,
            dl_stream_lang, dl_tmpdir, dl_result, dl_calls>>
selVars == <<sel_pc, sel_page, sel_quality, sel_audio, sel_streams, sel_pool, sel_out>>
progVars == <<p_pc, p_total, p_current, p_now, last_update, p_accepted, p_calls, p_delivered>>
cacheVars == <<c_pc, c_file, c_events, c_result>>
sweepVars == <<s_pc, stop_event, s_mtime, s_name, s_archive, s_where, s_visit, s_now, s_clock, s_next, s_cycles,
               m_pc>>
epVars == <<ep_pc, ep_tokens, ep_spec, ep_valid, ep_out>>
cmdVars == <<h_pc, h_handler, h_text, h_spec, h_session, h_eps, h_chosen, h_events>>
fuzzyVars == <<fz_pc, fz_title, fz_query, fz_score>>
batchVars == <<b_title, b_eps, b_pc, b_idx, b_file, b_delete, b_fs, b_ops>>
vars == <<orchVars, gateVars, dlVars, selVars, progVars, cacheVars, sweepVars, epVars, cmdVars, fuzzyVars, batchVars>>

\* ------------------------------------------------------------ idle components
OrchIdle ==
    /\ episodes = <<>>
    /\ delete_after_upload = TRUE
    /\ pc = "idle"
    /\ idx = 0
    /\ res = None
    /\ metadata = NoMetadata
    /\ ttl = 0
    /\ thumb = None
    /\ media = "absent"
    /\ msg = None
    /\ log = <<>>
    /\ ledger = <<>>

GateIdle ==
    /\ limit = 0
    /\ sem_value = 0
    /\ sem_waiters = <<>>
    /\ g_pc = <<>>
    /\ g_calls = <<>>

DlIdle ==
    /\ dl_pc = "idle"
    /\ dl_quality = <<>>
    /\ dl_audio = None
    /\ dl_streams = <<>>
    /\ dl_selected = <<>>
    /\ dl_stream_qual = <<>>
    /\ dl_stream_lang = <<>>
    /\ dl_tmpdir = "unmade"
    /\ dl_result = [kind |-> "pending"]
    /\ dl_calls = <<>>

SelIdle ==
    /\ sel_pc = "idle"
    /\ sel_page = <<>>
    /\ sel_quality = <<>>
    /\ sel_audio = None
    /\ sel_streams = <<>>
    /\ sel_pool = <<>>
    /\ sel_out = <<>>

ProgIdle ==
    /\ p_pc = "idle"
    /\ p_total = 0
    /\ p_current = 0
    /\ p_now = 0
    /\ last_update = [time |-> 0, percent |-> 0]
    /\ p_accepted = <<>>
    /\ p_calls = 0
    /\ p_delivered = <<>>

CacheIdle ==
    /\ c_pc = "idle"
    /\ c_file = <<>>
    /\ c_events = <<>>
    /\ c_result = <<>>

SweepIdle ==
    /\ s_pc = "idle"
    /\ stop_event = FALSE
    /\ s_mtime = <<>>
    /\ s_name = <<>>
    /\ s_archive = <<>>
    /\ s_where = <<>>
    /\ s_visit = <<>>
    /\ s_now = 0
    /\ s_clock = 0
    /\ s_next = 0
    /\ s_cycles = 0
    /\ m_pc = "idle"

EpIdle ==
    /\ ep_pc = "idle"
    /\ ep_tokens = <<>>
    /\ ep_spec = <<>>
    /\ ep_valid = <<>>
    /\ ep_out = <<>>

CmdIdle ==
    /\ h_pc = "idle"
    /\ h_handler = "none"
    /\ h_text = <<>>
    /\ h_spec = <<>>
    /\ h_session = FALSE
    /\ h_eps = {}
    /\ h_chosen = {}
    /\ h_events = <<>>

FuzzyIdle ==
    /\ fz_pc = "idle"
    /\ fz_title = <<>>
    /\ fz_query = <<>>
    /\ fz_score = <<>>

BatchIdle ==
    /\ b_title = <<>>
    /\ b_eps = <<>>
    /\ b_pc = <<>>
    /\ b_idx = <<>>
    /\ b_file = <<>>
    /\ b_delete = TRUE
    /\ b_fs = <<>>
    /\ b_ops = {}

\* =========================================================================
\* DownloadUploadTask.run
\* =========================================================================

\* The batches run is started with: episode numbers 1..NumEpisodes in ascending
\* order, or rotated by one (the list keeps the provider's order).
Batches ==
    { [i \in 1..NumEpisodes |-> i],
      [i \in 1..NumEpisodes |-> (i % NumEpisodes) + 1] }

\* settings.vault_channel_id, the chat every file is sent to.
VaultChannel == "vault"

\* Failure reasons download_episode reports to run.
FailureReasons == {"No stream URL", "Failed to compile video"}

\* What download_episode hands back to run (quality is DEFAULT_QUALITY, a number).
DownloadResults ==
    { [success |-> TRUE, reason |-> None, filepath |-> "out.mp4"] }
    \cup { [success |-> FALSE, reason |-> r, filepath |-> None] : r \in FailureReasons }

\* Durations (seconds) the media metadata may report.
Durations == {4}

\* status(msg): the status callback is invoked; an exception of the callback
\* is swallowed.
status(l, text, ep, detail) ==
    Append(l, [ev |-> text, ep |-> ep, detail |-> detail])

\* A call to or an outcome of a collaborator, for episode ep.
Call(l, what, ep) ==
    Append(l, [ev |-> what, ep |-> ep, detail |-> None])

\* download_episode handed back a result with this reason (None on success).
Returned(l, ep, reason) ==
    Append(l, [ev |-> "download_episode returned", ep |-> ep, detail |-> reason])

\* Mutant of EpisodeAt: the loop walks the episode numbers in ascending order
\* instead of the order of the batch.
EpisodeAt_Sorted(eps, i) ==
    CHOOSE e \in { eps[n] : n \in 1..Len(eps) } :
        Cardinality({ n \in 1..Len(eps) : eps[n] < e }) = i - 1

\* for ep_info in self.episodes: the episode the loop is at.
EpisodeAt(eps, i) == eps[i]

\* The message ids the chat hands out: one more per delivered file.
NewMessageId(l) ==
    1 + Cardinality({ i \in 1..Len(l) : l[i].ev = "upload_file returned" })

OrchInit ==
    /\ episodes \in Batches
    /\ delete_after_upload \in BOOLEAN
    /\ pc = "start"
    /\ idx = 0
    /\ res = None
    /\ metadata = NoMetadata
    /\ ttl = 0
    /\ thumb = None
    /\ media = "absent"
    /\ msg = None
    /\ log = <<>>
    /\ ledger = <<>>

\* await status("Starting task: ...")
RunStart ==
    /\ pc = "start"
    /\ log' = status(log, "Starting task", 0, None)
    /\ idx' = 1
    /\ pc' = "loop"
    /\ UNCHANGED <<episodes, delete_after_upload, res, metadata, ttl, thumb, media, msg, ledger>>
    /\ UNCHANGED <<gateVars, dlVars, selVars, progVars, cacheVars, sweepVars, epVars, cmdVars, fuzzyVars, batchVars>>

\* The head of the for loop: the next episode is prepared and its download is
\* requested, or the loop is over.
LoopHead ==
    /\ pc = "loop"
    /\ IF idx > Len(episodes)
         THEN /\ pc' = "finish"
              /\ log' = log
         ELSE /\ pc' = "downloading"
              /\ log' = Call(status(log, "Preparing to download", EpisodeAt(episodes, idx), None),
                             "download_episode", EpisodeAt(episodes, idx))
    /\ res' = None
    /\ metadata' = NoMetadata
    /\ ttl' = 0
    /\ thumb' = None
    /\ media' = "absent"
    /\ msg' = None
    /\ UNCHANGED <<episodes, delete_after_upload, idx, ledger>>
    /\ UNCHANGED <<gateVars, dlVars, selVars, progVars, cacheVars, sweepVars, epVars, cmdVars, fuzzyVars, batchVars>>

\* if not res.success: status, sleep, continue.
DownloadFailed(r) ==
    /\ ~r.success
    /\ log' = Call(status(Returned(log, EpisodeAt(episodes, idx), r.reason),
                          "Download failed", EpisodeAt(episodes, idx), r.reason),
                   "sleep", EpisodeAt(episodes, idx))
    /\ idx' = idx + 1
    /\ pc' = "loop"
    /\ media' = "absent"

DownloadSucceeded(r) ==
    /\ r.success
    /\ log' = Returned(log, EpisodeAt(episodes, idx), r.reason)
    /\ idx' = idx
    /\ pc' = "metadata"
    /\ media' = "present"

\* res = await self.downloader.download_episode(...)
DownloadReturns ==
    /\ pc = "downloading"
    /\ \E r \in DownloadResults :
         /\ res' = r
         /\ \/ DownloadFailed(r)
            \/ DownloadSucceeded(r)
    /\ UNCHANGED <<episodes, delete_after_upload, metadata, ttl, thumb, msg, ledger>>
    /\ UNCHANGED <<gateVars, dlVars, selVars, progVars, cacheVars, sweepVars, epVars, cmdVars, fuzzyVars, batchVars>>

\* What extractMetadata(createParser(res.filepath)) may hand back: a metadata
\* object with or without a duration, or None for a file hachoir cannot read.
ExtractedMetadata ==
    { [kind |-> "Metadata", has_duration |-> TRUE, seconds |-> d] : d \in Durations }
    \cup { [kind |-> "Metadata", has_duration |-> FALSE, seconds |-> 0] }
    \cup { NoMetadata }

\* duration = 0; if metadata.has("duration"): duration = metadata.get("duration").seconds
Duration(m) == IF m.has_duration THEN m.seconds ELSE 0

\* metadata = extractMetadata(createParser(res.filepath)); neither call is
\* guarded: with metadata = None, metadata.has raises out of run.
ExtractMetadata ==
    /\ pc = "metadata"
    /\ \E m \in ExtractedMetadata :
         /\ metadata' = m
         /\ IF m.kind = "None"
              THEN ttl' = ttl /\ pc' = "raised"
              ELSE ttl' = Duration(m) \div 2 /\ pc' = "screenshot"
    /\ UNCHANGED <<episodes, delete_after_upload, idx, res, thumb, media, msg, log, ledger>>
    /\ UNCHANGED <<gateVars, dlVars, selVars, progVars, cacheVars, sweepVars, epVars, cmdVars, fuzzyVars, batchVars>>

\* thumb = await take_screen_shot(...): the path when ffmpeg wrote the file,
\* None when it did not; starting ffmpeg may raise (not installed).
TakeScreenShot ==
    /\ pc = "screenshot"
    /\ \/ thumb' = "file" /\ pc' = "upload"
       \/ thumb' = None /\ pc' = "upload"
       \/ thumb' = thumb /\ pc' = "raised"
    /\ UNCHANGED <<episodes, delete_after_upload, idx, res, metadata, ttl, media, msg, log, ledger>>
    /\ UNCHANGED <<gateVars, dlVars, selVars, progVars, cacheVars, sweepVars, epVars, cmdVars, fuzzyVars, batchVars>>

\* await status("Uploading ep ..."); msg = await self.uploader.upload_file(...)
UploadCall ==
    /\ pc = "upload"
    /\ log' = Call(status(log, "Uploading", EpisodeAt(episodes, idx), None),
                   "upload_file", EpisodeAt(episodes, idx))
    /\ pc' = "uploading"
    /\ UNCHANGED <<episodes, delete_after_upload, idx, res, metadata, ttl, thumb, media, msg, ledger>>
    /\ UNCHANGED <<gateVars, dlVars, selVars, progVars, cacheVars, sweepVars, epVars, cmdVars, fuzzyVars, batchVars>>

\* upload_file returns the message handle.
UploadReturned ==
    /\ msg' = [chat_id |-> VaultChannel, id |-> NewMessageId(log)]
    /\ log' = Call(log, "upload_file returned", EpisodeAt(episodes, idx))
    /\ pc' = "ledger"

\* Mutant of UploadRaised: the ledger insert is attempted all the same.
UploadRaised_Inserts ==
    /\ msg' = None
    /\ log' = status(Call(Call(log, "upload_file raised", EpisodeAt(episodes, idx)),
                          "insert_uploaded_file", EpisodeAt(episodes, idx)),
                     "Upload failed", EpisodeAt(episodes, idx), "error")
    /\ pc' = "cleanup"

\* upload_file raises: except Exception as e: status("Upload failed ...").
UploadRaised ==
    /\ msg' = None
    /\ log' = status(Call(log, "upload_file raised", EpisodeAt(episodes, idx)),
                     "Upload failed", EpisodeAt(episodes, idx), "error")
    /\ pc' = "cleanup"

UploadEnds ==
    /\ pc = "uploading"
    /\ \/ UploadReturned
       \/ UploadRaised
    /\ UNCHANGED <<episodes, delete_after_upload, idx, res, metadata, ttl, thumb, media, ledger>>
    /\ UNCHANGED <<gateVars, dlVars, selVars, progVars, cacheVars, sweepVars, epVars, cmdVars, fuzzyVars, batchVars>>

\* self.anime_title and self.uploader_id of the task.
anime_title == "title"
uploader_id == "uploader"

\* Mutant of UploadedFile: the uploader's id is stored as the chat id.
UploadedFile_UploaderAsChat(title, ep, chat_id, uploader, message_id) ==
    [anime_title |-> title, episode |-> ep,
     uploaded_chat_id |-> uploader, uploader_user_id |-> chat_id,
     uploaded_message_id |-> message_id,
     vault_chat_id |-> uploader, vault_message_id |-> message_id]

\* The row insert_uploaded_file commits (db.py): the vault fields repeat the
\* chat and message id passed in. ep_lang, ep_qual, filename and filesize are
\* stored as passed and are left out of the row here.
UploadedFile(title, ep, chat_id, uploader, message_id) ==
    [anime_title |-> title, episode |-> ep,
     uploaded_chat_id |-> chat_id, uploader_user_id |-> uploader,
     uploaded_message_id |-> message_id,
     vault_chat_id |-> chat_id, vault_message_id |-> message_id]

\* try: await insert_uploaded_file(...) except Exception: logged;
\* then await status("Uploaded ep N successfully.").
LedgerInsert ==
    /\ pc = "ledger"
    /\ \/ ledger' = Append(ledger, UploadedFile(anime_title, EpisodeAt(episodes, idx),
                                                msg.chat_id, uploader_id, msg.id))
       \/ ledger' = ledger
    /\ log' = status(Call(log, "insert_uploaded_file", EpisodeAt(episodes, idx)),
                     "Uploaded", EpisodeAt(episodes, idx), None)
    /\ pc' = "cleanup"
    /\ UNCHANGED <<episodes, delete_after_upload, idx, res, metadata, ttl, thumb, media, msg>>
    /\ UNCHANGED <<gateVars, dlVars, selVars, progVars, cacheVars, sweepVars, epVars, cmdVars, fuzzyVars, batchVars>>

\* os.remove(thumb) raised: logger.exception("Failed to delete thumbnail image").
RemoveThumbFailed(l, ep) ==
    Append(Call(l, "os.remove(thumb)", ep),
           [ev |-> "Failed to delete thumbnail image", ep |-> ep, detail |-> thumb])

\* Mutant of RemoveThumb: the exception of os.remove leaves run.
RemoveThumb_Propagates ==
    /\ pc = "cleanup"
    /\ \/ /\ thumb = "file"
          /\ thumb' = "removed"
          /\ log' = Call(log, "os.remove(thumb)", EpisodeAt(episodes, idx))
          /\ pc' = "cleanup_media"
       \/ /\ thumb' = thumb
          /\ log' = RemoveThumbFailed(log, EpisodeAt(episodes, idx))
          /\ pc' = "raised"
    /\ UNCHANGED <<episodes, delete_after_upload, idx, res, metadata, ttl, media, msg, ledger>>
    /\ UNCHANGED <<gateVars, dlVars, selVars, progVars, cacheVars, sweepVars, epVars, cmdVars, fuzzyVars, batchVars>>

\* try: os.remove(thumb) except Exception: logged. With thumb = None the call
\* raises TypeError, which is caught the same way.
RemoveThumb ==
    /\ pc = "cleanup"
    /\ \/ /\ thumb = "file"
          /\ thumb' = "removed"
          /\ log' = Call(log, "os.remove(thumb)", EpisodeAt(episodes, idx))
       \/ /\ thumb' = thumb
          /\ log' = RemoveThumbFailed(log, EpisodeAt(episodes, idx))
    /\ pc' = "cleanup_media"
    /\ UNCHANGED <<episodes, delete_after_upload, idx, res, metadata, ttl, media, msg, ledger>>
    /\ UNCHANGED <<gateVars, dlVars, selVars, progVars, cacheVars, sweepVars, epVars, cmdVars, fuzzyVars, batchVars>>

\* if settings.delete_after_upload and res.filepath and os.path.exists(...):
\*     try: os.remove(res.filepath) except Exception: logged
\* then await asyncio.sleep(settings.rate_limit_seconds).
RemoveMediaAndSleep ==
    /\ pc = "cleanup_media"
    /\ IF delete_after_upload /\ media = "present"
         THEN /\ \/ media' = "absent"
                 \/ media' = media
              /\ log' = Call(Call(log, "os.remove(filepath)", EpisodeAt(episodes, idx)),
                             "sleep", EpisodeAt(episodes, idx))
         ELSE /\ media' = media
              /\ log' = Call(log, "sleep", EpisodeAt(episodes, idx))
    /\ idx' = idx + 1
    /\ pc' = "loop"
    /\ UNCHANGED <<episodes, delete_after_upload, res, metadata, ttl, thumb, msg, ledger>>
    /\ UNCHANGED <<gateVars, dlVars, selVars, progVars, cacheVars, sweepVars, epVars, cmdVars, fuzzyVars, batchVars>>

\* await status("Task finished.")
RunFinish ==
    /\ pc = "finish"
    /\ log' = status(log, "Task finished.", 0, None)
    /\ pc' = "returned"
    /\ UNCHANGED <<episodes, delete_after_upload, idx, res, metadata, ttl, thumb, media, msg, ledger>>
    /\ UNCHANGED <<gateVars, dlVars, selVars, progVars, cacheVars, sweepVars, epVars, cmdVars, fuzzyVars, batchVars>>

\* ------------------------------------------------------------------------
\* Properties of DownloadUploadTask.run
\* ------------------------------------------------------------------------

\* The run coroutine is over: it returned, or an exception left it.
RunEnded == pc \in {"returned", "raised"}

\* Event ev of episode ep is in the history.
HasEvent(ev, ep) == \E i \in 1..Len(log) : log[i].ev = ev /\ log[i].ep = ep

\* Event ev of episode ep is in the history after position i.
HasEventAfter(ev, ep, i) ==
    \E j \in (i + 1)..Len(log) : log[j].ev = ev /\ log[j].ep = ep

\* The position of episode ep in the batch.
PositionOf(ep) == CHOOSE n \in 1..Len(episodes) : episodes[n] = ep

\* The episodes that follow ep in the batch.
LaterEpisodes(ep) ==
    { episodes[n] : n \in (PositionOf(ep) + 1)..Len(episodes) }

\* C1: every run that is over has emitted the final "Task finished." status,
\* whatever failed on the way (download, duration or thumbnail extraction,
\* upload, ledger write).
C1_TaskFinishedWhenRunEnds ==
    RunEnded => /\ log # <<>>
                /\ log[Len(log)].ev = "Task finished."

\* C2: when download_episode reports a failure for episode k, the next thing
\* run does is emit "Download failed" with the reported reason; no upload and
\* no ledger insert is ever attempted for k; and by the end of the run the
\* download of every later episode of the batch has been requested.
C2_StatusAndNoUpload ==
    \A i \in 1..Len(log) :
        (log[i].ev = "download_episode returned" /\ log[i].detail # None) =>
            /\ i < Len(log)
            /\ log[i + 1].ev = "Download failed"
            /\ log[i + 1].ep = log[i].ep
            /\ log[i + 1].detail = log[i].detail
            /\ ~HasEvent("upload_file", log[i].ep)
            /\ ~HasEvent("insert_uploaded_file", log[i].ep)

C2_DownloadFailureIsolated ==
    /\ C2_StatusAndNoUpload
    /\ \A i \in 1..Len(log) :
        (log[i].ev = "download_episode returned" /\ log[i].detail # None /\ RunEnded) =>
            \A later \in LaterEpisodes(log[i].ep) : HasEvent("download_episode", later)

\* C3: when upload_file raises for episode k, run emits "Upload failed" for k,
\* goes on to the cleanup of k (thumbnail removal, and media removal when
\* configured), and by the end of the run every later episode of the batch
\* has been processed.
C3_CaughtAndCleanedUp ==
    \A i \in 1..Len(log) :
        (log[i].ev = "upload_file raised") =>
            /\ i < Len(log)
            /\ log[i + 1].ev = "Upload failed"
            /\ log[i + 1].ep = log[i].ep
            /\ (RunEnded \/ idx > PositionOf(log[i].ep)) =>
                  /\ HasEventAfter("os.remove(thumb)", log[i].ep, i)
                  /\ delete_after_upload => HasEventAfter("os.remove(filepath)", log[i].ep, i)
                  /\ HasEventAfter("sleep", log[i].ep, i)

C3_UploadFailureIsolated ==
    /\ C3_CaughtAndCleanedUp
    /\ \A i \in 1..Len(log) :
        (log[i].ev = "upload_file raised" /\ RunEnded) =>
            \A later \in LaterEpisodes(log[i].ep) : HasEvent("download_episode", later)

\* The download requests of the history, in order.
IsDownloadCall(e) == e.ev = "download_episode"
DownloadCalls == SelectSeq(log, IsDownloadCall)

\* C4: the downloads are requested in exactly the order of batch.episodes,
\* each episode at most once, and when the download of an episode is requested
\* every episode touched before it has ended (its sleep has been reached):
\* the events of one episode are never interleaved with another's.
C4_SequentialInBatchOrder ==
    /\ Len(DownloadCalls) <= Len(episodes)
    /\ \A n \in 1..Len(DownloadCalls) : DownloadCalls[n].ep = episodes[n]
    /\ \A i \in 1..Len(log) :
         log[i].ev = "download_episode" =>
            \A j \in 1..(i - 1) :
                (log[j].ep # 0 /\ log[j].ep # log[i].ep) =>
                    \E m \in j..(i - 1) : log[m].ev = "sleep" /\ log[m].ep = log[j].ep
    /\ \A i \in 1..Len(log) :
         (log[i].ev = "sleep") =>
            \A j \in (i + 1)..Len(log) : log[j].ep # log[i].ep

\* C4 witness: a batch that is not in ascending order, whose first episode
\* was downloaded, uploaded, recorded and cleaned up, and whose second
\* episode is now being downloaded.
C4_Witness ==
    /\ episodes[1] > episodes[Len(episodes)]
    /\ pc = "downloading"
    /\ idx = 2
    /\ HasEvent("insert_uploaded_file", episodes[1])
    /\ HasEvent("os.remove(thumb)", episodes[1])
    /\ HasEvent("download_episode", episodes[2])

\* C12: for an episode whose download succeeded, a metadata object without a
\* duration gives the screenshot time 0; the upload of the episode is
\* attempted whatever the duration inspection and the frame extraction did;
\* by the end of the run the download of every later episode has been
\* requested; and no exception leaves run.
C12_ThumbnailFailureTolerated ==
    /\ (pc \in {"screenshot", "upload"} /\ metadata.kind = "Metadata"
            /\ ~metadata.has_duration) => ttl = 0
    /\ pc # "raised"
    /\ \A i \in 1..Len(log) :
         (log[i].ev = "download_episode returned" /\ log[i].detail = None
             /\ (RunEnded \/ idx > PositionOf(log[i].ep))) =>
            /\ HasEventAfter("upload_file", log[i].ep, i)
            /\ RunEnded =>
                  \A later \in LaterEpisodes(log[i].ep) : HasEvent("download_episode", later)

\* The ledger inserts attempted for episode ep, as positions of the history.
InsertsOf(ep) ==
    { i \in 1..Len(log) : log[i].ev = "insert_uploaded_file" /\ log[i].ep = ep }

\* C13: a ledger insert is attempted for an episode only after upload_file
\* returned a message handle for it, and at most once per episode; none is
\* attempted for an episode whose download failed or whose upload raised, and
\* every committed row belongs to an attempted insert.
C13_InsertOnlyAfterUpload ==
    /\ \A i \in 1..Len(log) :
         log[i].ev = "insert_uploaded_file" =>
            /\ \E j \in 1..(i - 1) :
                  log[j].ev = "upload_file returned" /\ log[j].ep = log[i].ep
            /\ Cardinality(InsertsOf(log[i].ep)) = 1
    /\ \A i \in 1..Len(log) :
         (\/ log[i].ev = "download_episode returned" /\ log[i].detail # None
          \/ log[i].ev = "upload_file raised") =>
            InsertsOf(log[i].ep) = {}
    /\ \A r \in 1..Len(ledger) :
         /\ InsertsOf(ledger[r].episode) # {}
         /\ \A q \in 1..Len(ledger) : ledger[q].episode = ledger[r].episode => q = r

\* C13 witness: the run is over; one episode was uploaded and recorded, the
\* upload of another raised and the download of a third failed.
C13_Witness ==
    /\ pc = "returned"
    /\ \E a, b, c \in 1..NumEpisodes :
         /\ InsertsOf(a) # {}
         /\ \E r \in 1..Len(ledger) : ledger[r].episode = a
         /\ HasEvent("upload_file raised", b)
         /\ HasEvent("Download failed", c)

\* The insert attempted for episode ep raised: no row was committed for it.
InsertRaised(ep) ==
    /\ InsertsOf(ep) # {}
    /\ \A r \in 1..Len(ledger) : ledger[r].episode # ep

\* C14: when insert_uploaded_file raises for episode k, "Uploaded" is emitted
\* for k next and "Upload failed" never is; the cleanup of k runs (thumbnail
\* removal, and media removal when configured); and by the end of the run the
\* download of every later episode of the batch has been requested.
C14_ReportedAndCleanedUp ==
    \A i \in 1..Len(log) :
        (log[i].ev = "insert_uploaded_file" /\ InsertRaised(log[i].ep)) =>
            /\ i < Len(log)
            /\ log[i + 1].ev = "Uploaded"
            /\ log[i + 1].ep = log[i].ep
            /\ ~HasEvent("Upload failed", log[i].ep)
            /\ (RunEnded \/ idx > PositionOf(log[i].ep)) =>
                  /\ HasEventAfter("os.remove(thumb)", log[i].ep, i)
                  /\ delete_after_upload => HasEventAfter("os.remove(filepath)", log[i].ep, i)
                  /\ HasEventAfter("sleep", log[i].ep, i)

C14_LedgerFailureIsolated ==
    /\ C14_ReportedAndCleanedUp
    /\ \A i \in 1..Len(log) :
        (log[i].ev = "insert_uploaded_file" /\ InsertRaised(log[i].ep) /\ RunEnded) =>
            \A later \in LaterEpisodes(log[i].ep) : HasEvent("download_episode", later)

\* The positions of the "Uploaded ep N successfully." statuses.
UploadedStatuses == { i \in 1..Len(log) : log[i].ev = "Uploaded" }

\* The download of episode ep succeeded and its upload did not raise.
DownloadedNotRaised(ep) ==
    /\ \E i \in 1..Len(log) :
          log[i].ev = "download_episode returned" /\ log[i].ep = ep /\ log[i].detail = None
    /\ ~HasEvent("upload_file raised", ep)

\* C26: every "Uploaded" status names an episode whose download succeeded
\* and whose upload did not raise, no two of them name the same episode, and
\* when the run is over there are as many of them as there are such episodes.
C26_UploadedCountMatches ==
    /\ \A i \in UploadedStatuses :
          /\ DownloadedNotRaised(log[i].ep)
          /\ \A j \in UploadedStatuses : log[j].ep = log[i].ep => j = i
    /\ RunEnded =>
          Cardinality(UploadedStatuses) =
              Cardinality({ n \in 1..Len(episodes) : DownloadedNotRaised(episodes[n]) })

\* The id of the message handle upload_file returned at position i of the
\* history.
ReturnedMessageId(i) ==
    Cardinality({ j \in 1..i : log[j].ev = "upload_file returned" })

\* C29: every row of the ledger has the chat id and the message id of the
\* handle upload_file returned for the row's episode, the number of that
\* episode and the title of the batch; its vault fields name the vault
\* channel and the message delivered there.
C29_LedgerRowMatchesUpload ==
    \A r \in 1..Len(ledger) :
        /\ \E i \in 1..Len(log) :
              /\ log[i].ev = "upload_file returned"
              /\ log[i].ep = ledger[r].episode
              /\ ledger[r].uploaded_message_id = ReturnedMessageId(i)
        /\ ledger[r].uploaded_chat_id = VaultChannel
        /\ ledger[r].anime_title = anime_title
        /\ ledger[r].vault_chat_id = VaultChannel
        /\ ledger[r].vault_message_id = ledger[r].uploaded_message_id

\* C29 witness: two rows were written, for different episodes, the second
\* for the second message delivered to the vault channel.
C29_Witness ==
    /\ Len(ledger) >= 2
    /\ ledger[1].episode # ledger[2].episode
    /\ ledger[1].uploaded_message_id = 1
    /\ ledger[2].uploaded_message_id = 2
    /\ ledger[2].uploaded_chat_id = VaultChannel

\* The upload of the episode of position i of the history ended there.
UploadOutcomeAt(i) == log[i].ev \in {"upload_file returned", "upload_file raised"}

\* The event that follows the sleep of an episode: the next episode of the
\* batch is prepared, or the task finishes.
NextAfterSleep(i) ==
    i < Len(log) =>
        \/ log[i + 1].ev = "Task finished."
        \/ /\ log[i + 1].ev = "Preparing to download"
           /\ log[i + 1].ep \in LaterEpisodes(log[i].ep)

PreviousDownloaded ==
    /\ idx > 1
    /\ \E i \in 1..Len(log) :
          /\ log[i].ev = "download_episode returned"
          /\ log[i].ep = episodes[idx - 1]
          /\ log[i].detail = None

\* C37: when run is done with an episode whose download succeeded, the media
\* file is gone if delete_after_upload is set, and in place if it is not.
C37_MediaRemovedWhenConfigured ==
    /\ (pc = "loop" /\ PreviousDownloaded) =>
          media = (IF delete_after_upload THEN "absent" ELSE "present")
    /\ (pc = "raised" /\ delete_after_upload) => media = "absent"

Init == OrchInit /\ GateIdle /\ DlIdle /\ SelIdle /\ ProgIdle /\ CacheIdle /\ SweepIdle /\ EpIdle /\ CmdIdle /\ FuzzyIdle /\ BatchIdle

Next ==
    \/ RunStart
    \/ LoopHead
    \/ DownloadReturns
    \/ ExtractMetadata
    \/ TakeScreenShot
    \/ UploadCall
    \/ UploadEnds
    \/ LedgerInsert
    \/ RemoveThumb
    \/ RemoveMediaAndSleep
    \/ RunFinish

Spec == Init /\ [][Next]_vars

\* =========================================================================
\* Uploader.upload_file: one Uploader, several batches calling it
\* =========================================================================

\* The gate is "async with self.semaphore" around send_file; the semaphore
\* behaves as asyncio.Semaphore does: a counter and a FIFO queue of waiters,
\* release() handing the freed slot to the first pending waiter.

\* The batches that call upload_file on the shared Uploader.
Callers == 1..NumCallers

\* Uploader.__init__: self.semaphore = asyncio.Semaphore(concurrency).
GateInit ==
    /\ limit \in 1..MaxLimit
    /\ sem_value = limit
    /\ sem_waiters = <<>>
    /\ g_pc = [c \in Callers |-> "idle"]
    /\ g_calls = [c \in Callers |-> 0]

\* The callers whose send_file is in flight.
InFlight == { c \in Callers : g_pc[c] = "sending" }

\* Semaphore.locked(): no free slot, or somebody is already queued.
Locked == sem_value = 0 \/ sem_waiters # <<>>

\* The waiters whose future is still pending, in queue order.
IsPending(c) == g_pc[c] = "waiting"
PendingWaiters == SelectSeq(sem_waiters, IsPending)

\* Mutant of Acquire: the call is admitted without looking at the semaphore.
Acquire_Unbounded(c) ==
    /\ g_pc[c] \in {"idle", "returned", "raised"}
    /\ g_calls[c] < MaxCalls
    /\ sem_value' = sem_value - 1
    /\ g_pc' = [g_pc EXCEPT ![c] = "sending"]
    /\ UNCHANGED <<limit, sem_waiters, g_calls>>
    /\ UNCHANGED <<orchVars, dlVars, selVars, progVars, cacheVars, sweepVars, epVars, cmdVars, fuzzyVars, batchVars>>

\* async with self.semaphore (entry): take a slot and start send_file, or
\* queue up behind the waiters until a slot is handed over.
Acquire(c) ==
    /\ g_pc[c] \in {"idle", "returned", "raised"}
    /\ g_calls[c] < MaxCalls
    /\ IF ~Locked
         THEN /\ sem_value' = sem_value - 1
              /\ g_pc' = [g_pc EXCEPT ![c] = "sending"]
              /\ sem_waiters' = sem_waiters
         ELSE /\ sem_value' = sem_value
              /\ g_pc' = [g_pc EXCEPT ![c] = "waiting"]
              /\ sem_waiters' = Append(sem_waiters, c)
    /\ UNCHANGED <<limit, g_calls>>
    /\ UNCHANGED <<orchVars, dlVars, selVars, progVars, cacheVars, sweepVars, epVars, cmdVars, fuzzyVars, batchVars>>

\* Mutant of ReleaseSlot: the slot is given back but no waiter is woken.
ReleaseSlot_NoHandover(c, outcome) ==
    /\ sem_value' = sem_value + 1
    /\ g_pc' = [g_pc EXCEPT ![c] = outcome]
    /\ g_calls' = [g_calls EXCEPT ![c] = @ + 1]
    /\ UNCHANGED <<limit, sem_waiters>>

\* async with self.semaphore (exit): release() gives the slot back and hands
\* it to the first pending waiter, if there is one. c ends in state outcome.
ReleaseSlot(c, outcome) ==
    /\ IF PendingWaiters # <<>>
         THEN /\ sem_value' = sem_value
              /\ g_pc' = [g_pc EXCEPT ![c] = outcome, ![Head(PendingWaiters)] = "woken"]
         ELSE /\ sem_value' = sem_value + 1
              /\ g_pc' = [g_pc EXCEPT ![c] = outcome]
    /\ g_calls' = [g_calls EXCEPT ![c] = @ + 1]
    /\ UNCHANGED <<limit, sem_waiters>>

\* send_file returned the message: the slot is released and msg is returned.
SendReturns(c) ==
    /\ g_pc[c] = "sending"
    /\ ReleaseSlot(c, "returned")
    /\ UNCHANGED <<orchVars, dlVars, selVars, progVars, cacheVars, sweepVars, epVars, cmdVars, fuzzyVars, batchVars>>

\* Mutant of SendRaises: the slot is released on the success path only.
SendRaises_Leak(c) ==
    /\ g_pc[c] = "sending"
    /\ g_pc' = [g_pc EXCEPT ![c] = "raised"]
    /\ g_calls' = [g_calls EXCEPT ![c] = @ + 1]
    /\ UNCHANGED <<limit, sem_value, sem_waiters>>
    /\ UNCHANGED <<orchVars, dlVars, selVars, progVars, cacheVars, sweepVars, epVars, cmdVars, fuzzyVars, batchVars>>

\* send_file raised: the context manager releases the slot and the exception
\* goes on to the caller.
SendRaises(c) ==
    /\ g_pc[c] = "sending"
    /\ ReleaseSlot(c, "raised")
    /\ UNCHANGED <<orchVars, dlVars, selVars, progVars, cacheVars, sweepVars, epVars, cmdVars, fuzzyVars, batchVars>>

\* The smaller of two numbers.
Min(a, b) == IF a <= b THEN a ELSE b

\* A waiter that was handed a slot runs again: it leaves the queue, hands the
\* slots that are free by now to the first pending waiters (while
\* self._value > 0: self._wake_up_next()), and starts its send_file.
Resume(c) ==
    /\ g_pc[c] = "woken"
    /\ sem_waiters' = SelectSeq(sem_waiters, LAMBDA w : w # c)
    /\ LET n == Min(sem_value, Len(PendingWaiters))
           handed == { PendingWaiters[i] : i \in 1..n }
       IN  /\ sem_value' = sem_value - n
           /\ g_pc' = [w \in Callers |->
                         IF w = c THEN "sending"
                         ELSE IF w \in handed THEN "woken"
                         ELSE g_pc[w]]
    /\ UNCHANGED <<limit, g_calls>>
    /\ UNCHANGED <<orchVars, dlVars, selVars, progVars, cacheVars, sweepVars, epVars, cmdVars, fuzzyVars, batchVars>>

GateNext ==
    \E c \in Callers :
        \/ Acquire(c)
        \/ SendReturns(c)
        \/ SendRaises(c)
        \/ Resume(c)

GateSpecInit == OrchIdle /\ GateInit /\ DlIdle /\ SelIdle /\ ProgIdle /\ CacheIdle /\ SweepIdle /\ EpIdle /\ CmdIdle /\ FuzzyIdle /\ BatchIdle

GateSpec == GateSpecInit /\ [][GateNext]_vars

\* The event loop runs every task that is ready (a waiter whose future was
\* set is resumed), and every send_file in flight returns or raises.
GateFairness ==
    \A c \in Callers :
        /\ WF_vars(Resume(c))
        /\ WF_vars(SendReturns(c) \/ SendRaises(c))

\* The start of the liveness check: the gate is free, the first batch has
\* all its uploads ahead of it, the others have returned from all their
\* uploads but the last.
GateLiveInit ==
    /\ OrchIdle /\ DlIdle /\ SelIdle /\ ProgIdle /\ CacheIdle /\ SweepIdle
    /\ EpIdle /\ CmdIdle /\ FuzzyIdle /\ BatchIdle
    /\ limit \in 1..MaxLimit
    /\ sem_value = limit
    /\ sem_waiters = <<>>
    /\ g_pc = [c \in Callers |-> IF c = 1 THEN "idle" ELSE "returned"]
    /\ g_calls = [c \in Callers |-> IF c = 1 THEN 0 ELSE MaxCalls - 1]

GateLiveSpec == GateLiveInit /\ [][GateNext]_vars /\ GateFairness

\* ------------------------------------------------------------------------
\* Properties of Uploader.upload_file
\* ------------------------------------------------------------------------

\* C7: at every moment the number of send_file calls in flight through the
\* Uploader is at most the concurrency it was configured with.
C7_InFlightBounded == Cardinality(InFlight) <= limit

\* C7 witness: the gate is full and a further caller is blocked behind it.
C7_Witness ==
    /\ Cardinality(InFlight) = limit
    /\ \E c \in Callers : g_pc[c] = "waiting"

\* No upload_file call is in progress.
AllCallsOver == \A c \in Callers : g_pc[c] \in {"idle", "returned", "raised"}

\* The slots held: by a running send_file, or handed to a waiter that has not
\* run yet.
SlotsHeld == { c \in Callers : g_pc[c] \in {"sending", "woken"} }

\* C8: a slot is given back when send_file raises exactly as when it returns:
\* free slots plus held slots always make up the limit, so once every
\* upload_file call has returned or raised all the slots are free again.
C8_NoSlotLeaked ==
    /\ sem_value + Cardinality(SlotsHeld) = limit
    /\ AllCallsOver => sem_value = limit

\* C8 witness: every caller has made all its calls, one of the last calls
\* raised, and the gate is free again.
C8_Witness ==
    /\ \A c \in Callers : g_calls[c] = MaxCalls
    /\ AllCallsOver
    /\ \E c \in Callers : g_pc[c] = "raised"
    /\ \E c \in Callers : g_pc[c] = "returned"
    /\ sem_value = limit

Nothing == <<>>
Some(v) == <<v>>

\* Strings that are parsed are sequences of characters.
Digits == <<"0", "1", "2", "3", "4", "5", "6", "7", "8", "9">>
IsDigit(c) == \E d \in 1..Len(Digits) : Digits[d] = c
DigitValue(c) == (CHOOSE d \in 1..Len(Digits) : Digits[d] = c) - 1

RECURSIVE DecimalValue(_)
DecimalValue(s) ==
    IF s = <<>> THEN 0
    ELSE 10 * DecimalValue(SubSeq(s, 1, Len(s) - 1)) + DigitValue(s[Len(s)])

\* int(s) for a string of the alphabets below: the number when s is a
\* non-empty run of decimal digits, None for ValueError.
ParseInt(s) ==
    IF s # <<>> /\ \A i \in 1..Len(s) : IsDigit(s[i])
        THEN Some(DecimalValue(s))
        ELSE Nothing

\* data-resolution attributes of the buttons of a playback page (<<>>: the
\* attribute is missing or empty).
Resolutions ==
    { <<>>, <<"3", "6", "0">>, <<"7", "2", "0">>, <<"1", "0", "8", "0">> }

\* data-audio attributes of the buttons.
Audios == {"jpn", "eng"}

\* The buttons a page may hold.
Buttons == [resolution : Resolutions, audio : Audios]

\* The quality preference strings passed to download_episode.
QualityPrefs ==
    { <<"4", "8", "0">>, <<"7", "2", "0">>, <<"2", "1", "6", "0">>, <<"h", "d">> }

\* The audio preference strings passed to download_episode.
AudioPrefs == {"jpn", "fre"}

\* Sequences over S of length at most n.
SeqsUpTo(S, n) == UNION { [1..k -> S] : k \in 0..n }

\* The stream dict built from one button: quality is the attribute or "0".
StreamOf(b) ==
    [quality |-> IF b.resolution = <<>> THEN <<"0">> ELSE b.resolution,
     audio |-> b.audio]

\* stream["quality_val"] = int(q_raw), 0 on ValueError.
WithQualityVal(st) ==
    [quality |-> st.quality, audio |-> st.audio,
     quality_val |-> IF ParseInt(st.quality) = Nothing THEN 0 ELSE ParseInt(st.quality)[1]]

\* x put into the ascending list after every element that is not larger.
InsertStable(sorted, x) ==
    LET k == Cardinality({ i \in 1..Len(sorted) : sorted[i].quality_val <= x.quality_val })
    IN  SubSeq(sorted, 1, k) \o <<x>> \o SubSeq(sorted, k + 1, Len(sorted))

\* Mutant of SortStreams: the list is left in page order.
SortStreams_PageOrder(streams) == streams

\* streams.sort(key=quality_val): ascending and stable.
RECURSIVE SortStreams(_)
SortStreams(streams) ==
    IF streams = <<>> THEN <<>>
    ELSE InsertStable(SortStreams(SubSeq(streams, 1, Len(streams) - 1)),
                      streams[Len(streams)])

\* get_stream_qualities: None without a response or without buttons, else
\* the streams with their quality_val, ascending. page is None or the buttons.
get_stream_qualities(page) ==
    IF page = Nothing \/ page[1] = <<>>
        THEN Nothing
        ELSE Some(SortStreams([i \in 1..Len(page[1]) |-> WithQualityVal(StreamOf(page[1][i]))]))

\* Mutant of AudioStreams: the audio preference is a hard filter.
AudioStreams_HardFilter(streams, audio) ==
    SelectSeq(streams, LAMBDA st : st.audio = audio)

\* audio_streams: the streams with the wanted audio, or all of them when
\* there is none.
AudioStreams(streams, audio) ==
    LET matching == SelectSeq(streams, LAMBDA st : st.audio = audio)
    IN  IF matching = <<>> THEN streams ELSE matching

\* Mutant of Downgrade: the lowest stream of the pool is taken.
Downgrade_First(pool) == pool[1]

\* selected_stream = audio_streams[-1]: the last stream of the pool.
Downgrade(pool) == pool[Len(pool)]

\* The quality selection: None is returned when int(quality) raises
\* ValueError; else the first stream of the pool with quality_val >= target,
\* else the last stream of the pool (stream_qual and stream_lang stay None).
SelectStream(pool, quality) ==
    LET target == ParseInt(quality)
        hits == { i \in 1..Len(pool) : pool[i].quality_val >= target[1] }
        first == CHOOSE i \in hits : \A j \in hits : i <= j
    IN  IF target = Nothing
            THEN [returns_none |-> TRUE, selected |-> Nothing,
                  stream_qual |-> Nothing, stream_lang |-> Nothing]
        ELSE IF hits # {}
            THEN [returns_none |-> FALSE, selected |-> Some(pool[first]),
                  stream_qual |-> Some(pool[first].quality_val),
                  stream_lang |-> Some(pool[first].audio)]
        ELSE IF pool # <<>>
            THEN [returns_none |-> FALSE, selected |-> Some(Downgrade(pool)),
                  stream_qual |-> Nothing, stream_lang |-> Nothing]
        ELSE [returns_none |-> FALSE, selected |-> Nothing,
              stream_qual |-> Nothing, stream_lang |-> Nothing]

\* The inputs: a page (no response, or up to MaxStreams buttons in any order)
\* and the two preferences.
SelInit ==
    /\ sel_pc = "page"
    /\ sel_page \in {Nothing} \cup { Some(b) : b \in SeqsUpTo(Buttons, MaxStreams) }
    /\ sel_quality \in QualityPrefs
    /\ sel_audio \in AudioPrefs
    /\ sel_streams = Nothing
    /\ sel_pool = Nothing
    /\ sel_out = Nothing

\* streams = await self.get_stream_qualities(...); with streams = None the
\* comprehension over it raises TypeError and no selection is made.
SelGetStreams ==
    /\ sel_pc = "page"
    /\ sel_streams' = get_stream_qualities(sel_page)
    /\ sel_pc' = IF sel_streams' = Nothing THEN "raised" ELSE "select"
    /\ UNCHANGED <<sel_page, sel_quality, sel_audio, sel_pool, sel_out>>
    /\ UNCHANGED <<orchVars, gateVars, dlVars, progVars, cacheVars, sweepVars, epVars, cmdVars, fuzzyVars, batchVars>>

\* The audio selection followed by the quality selection.
SelSelect ==
    /\ sel_pc = "select"
    /\ sel_pool' = Some(AudioStreams(sel_streams[1], sel_audio))
    /\ sel_out' = Some(SelectStream(sel_pool'[1], sel_quality))
    /\ sel_pc' = "done"
    /\ UNCHANGED <<sel_page, sel_quality, sel_audio, sel_streams>>
    /\ UNCHANGED <<orchVars, gateVars, dlVars, progVars, cacheVars, sweepVars, epVars, cmdVars, fuzzyVars, batchVars>>

SelNext ==
    \/ SelGetStreams
    \/ SelSelect

SelSpecInit == OrchIdle /\ GateIdle /\ DlIdle /\ SelInit /\ ProgIdle /\ CacheIdle /\ SweepIdle /\ EpIdle /\ CmdIdle /\ FuzzyIdle /\ BatchIdle

SelSpec == SelSpecInit /\ [][SelNext]_vars

\* ------------------------------------------------------------------------
\* Properties of the stream selection
\* ------------------------------------------------------------------------

\* The selection was made with a quality preference that is a number.
Selected == sel_pc = "done" /\ ~sel_out[1].returns_none

\* The streams of the episode that have the wanted audio and at least the
\* wanted quality.
Adequate ==
    { i \in 1..Len(sel_streams[1]) :
        /\ sel_streams[1][i].audio = sel_audio
        /\ sel_streams[1][i].quality_val >= ParseInt(sel_quality)[1] }

\* C9: when some stream with the wanted audio has at least the wanted
\* quality, the selected stream has the wanted audio and the least quality
\* among those streams.
C9_CheapestAdequate ==
    (Selected /\ Adequate # {}) =>
        /\ sel_out[1].selected # Nothing
        /\ sel_out[1].selected[1].audio = sel_audio
        /\ sel_out[1].selected[1].quality_val >= ParseInt(sel_quality)[1]
        /\ \A i \in Adequate :
              sel_out[1].selected[1].quality_val <= sel_streams[1][i].quality_val

\* C9 witness: the page lists 1080 before 720, both with the wanted audio and
\* above the wanted 480, and a lower stream as well; 720 is selected.
C9_Witness ==
    /\ Selected
    /\ sel_quality = <<"4", "8", "0">>
    /\ Len(sel_page[1]) = 3
    /\ sel_page[1][1].resolution = <<"1", "0", "8", "0">>
    /\ sel_page[1][2].resolution = <<"7", "2", "0">>
    /\ sel_page[1][3].resolution = <<"3", "6", "0">>
    /\ \A i \in 1..3 : sel_page[1][i].audio = sel_audio
    /\ sel_out[1].selected[1].quality_val = 720

\* C10: the selected stream has another audio than the wanted one only if no
\* stream of the episode has the wanted audio, and then the selection ran
\* over all the streams; the candidate pool of a non-empty stream list is
\* never empty.
C10_AudioIsSoftPreference ==
    sel_pc = "done" =>
        /\ (sel_out[1].selected # Nothing /\ sel_out[1].selected[1].audio # sel_audio) =>
              \A i \in 1..Len(sel_streams[1]) : sel_streams[1][i].audio # sel_audio
        /\ (\A i \in 1..Len(sel_streams[1]) : sel_streams[1][i].audio # sel_audio) =>
              sel_pool[1] = sel_streams[1]
        /\ sel_streams[1] # <<>> => sel_pool[1] # <<>>
        /\ \A i \in 1..Len(sel_pool[1]) :
              \E j \in 1..Len(sel_streams[1]) : sel_pool[1][i] = sel_streams[1][j]

\* C10 witness: no stream has the wanted audio and a stream with another
\* audio is selected out of several.
C10_Witness ==
    /\ Selected
    /\ Len(sel_streams[1]) >= 2
    /\ sel_out[1].selected # Nothing
    /\ sel_out[1].selected[1].audio # sel_audio
    /\ sel_pool[1] = sel_streams[1]

\* The candidate set: the streams of the episode with the wanted audio, or
\* all of them when no stream has it.
Candidates ==
    IF \E i \in 1..Len(sel_streams[1]) : sel_streams[1][i].audio = sel_audio
        THEN { sel_streams[1][i] : i \in { j \in 1..Len(sel_streams[1]) :
                                              sel_streams[1][j].audio = sel_audio } }
        ELSE { sel_streams[1][i] : i \in 1..Len(sel_streams[1]) }

\* C11: when the candidate set is not empty and none of its streams has at
\* least the wanted quality, the selected stream is a candidate of the
\* highest quality in the set.
C11_DowngradeToHighest ==
    (/\ Selected
     /\ Candidates # {}
     /\ \A c \in Candidates : c.quality_val < ParseInt(sel_quality)[1]) =>
        /\ sel_out[1].selected # Nothing
        /\ sel_out[1].selected[1] \in Candidates
        /\ \A c \in Candidates : c.quality_val <= sel_out[1].selected[1].quality_val

\* C11 witness: 2160 is wanted, the page lists 720 before 360 and 1080 with the
\* wanted audio, and 1080 is selected.
C11_Witness ==
    /\ Selected
    /\ sel_quality = <<"2", "1", "6", "0">>
    /\ Len(sel_page[1]) = 3
    /\ sel_page[1][1].resolution = <<"7", "2", "0">>
    /\ sel_page[1][2].resolution = <<"3", "6", "0">>
    /\ sel_page[1][3].resolution = <<"1", "0", "8", "0">>
    /\ \A i \in 1..3 : sel_page[1][i].audio = sel_audio
    /\ sel_out[1].selected[1].quality_val = 1080

\* =========================================================================
\* AnimeDownloaderService.download_episode
\* =========================================================================

\* The playback pages the provider may answer with: no response, a page
\* without buttons, and pages with one or two buttons.
DlPages ==
    { Nothing,
      Some(<<>>),
      Some(<<[resolution |-> <<"7", "2", "0">>, audio |-> "jpn"]>>),
      Some(<<[resolution |-> <<"1", "0", "8", "0">>, audio |-> "eng"],
             [resolution |-> <<"3", "6", "0">>, audio |-> "jpn"]>>) }

\* stream_lang or "".
LangOrEmpty(lang) == IF lang = Nothing THEN "" ELSE lang[1]

\* Mutant of Failure: the failed result carries no reason.
Failure_NoReason(lang, reason) ==
    [kind |-> "EpisodeDownloadResult", episode_qual |-> Some(0),
     episode_lang |-> LangOrEmpty(lang), filepath |-> Nothing,
     success |-> FALSE, reason |-> Nothing]

\* EpisodeDownloadResult(episode_number, 0, stream_lang or "", None, False, reason)
Failure(lang, reason) ==
    [kind |-> "EpisodeDownloadResult", episode_qual |-> Some(0),
     episode_lang |-> LangOrEmpty(lang), filepath |-> Nothing,
     success |-> FALSE, reason |-> Some(reason)]

\* EpisodeDownloadResult(episode_number, stream_qual, stream_lang or "", output_path, True, None)
Success(qual, lang) ==
    [kind |-> "EpisodeDownloadResult", episode_qual |-> qual,
     episode_lang |-> LangOrEmpty(lang), filepath |-> Some("output_path"),
     success |-> TRUE, reason |-> Nothing]

\* except Exception as exc: EpisodeDownloadResult(episode_number, 0, "", None, False, str(exc))
Caught == Failure(Nothing, "str(exc)")

\* The bare "return None" of the ValueError handler.
ReturnedNone == [kind |-> "None"]

DlInit ==
    /\ dl_pc = "start"
    /\ dl_quality \in QualityPrefs
    /\ dl_audio \in AudioPrefs
    /\ dl_streams = Nothing
    /\ dl_selected = Nothing
    /\ dl_stream_qual = Nothing
    /\ dl_stream_lang = Nothing
    /\ dl_tmpdir = "unmade"
    /\ dl_result = [kind |-> "pending"]
    /\ dl_calls = <<>>

\* download_episode returns result before the working directory exists.
Return(result) ==
    /\ dl_result' = result
    /\ dl_pc' = "done"
    /\ dl_tmpdir' = dl_tmpdir

\* Mutant of LeaveTry: the working directory is removed on the success path
\* only, not in a finally block.
LeaveTry_SuccessOnly(result) ==
    /\ dl_result' = result
    /\ dl_pc' = "done"
    /\ dl_tmpdir' = IF result.success THEN "removed" ELSE dl_tmpdir

\* The inner try block is left, by a return or by an exception the outer
\* handler turns into a result: finally, shutil.rmtree(tmpdir, ignore_errors=True).
LeaveTry(result) ==
    /\ dl_result' = result
    /\ dl_pc' = "done"
    /\ dl_tmpdir' = "removed"

\* streams = await self.get_stream_qualities(anime_slug, ep_session). The
\* request may raise; with streams = None the comprehension of the audio
\* selection raises TypeError; both end in the outer handler.
DlGetStreams ==
    /\ dl_pc = "start"
    /\ dl_calls' = Append(dl_calls, "get_stream_qualities")
    /\ \/ /\ dl_streams' = dl_streams
          /\ Return(Caught)
       \/ \E page \in DlPages :
            /\ dl_streams' = get_stream_qualities(page)
            /\ IF dl_streams' = Nothing
                 THEN Return(Caught)
                 ELSE /\ dl_pc' = "select"
                      /\ UNCHANGED <<dl_result, dl_tmpdir>>
    /\ UNCHANGED <<dl_quality, dl_audio, dl_selected, dl_stream_qual, dl_stream_lang>>
    /\ UNCHANGED <<orchVars, gateVars, selVars, progVars, cacheVars, sweepVars, epVars, cmdVars, fuzzyVars, batchVars>>

\* The audio and quality selection, and "if not selected_stream".
DlSelect ==
    /\ dl_pc = "select"
    /\ LET choice == SelectStream(AudioStreams(dl_streams[1], dl_audio), dl_quality)
       IN  /\ dl_selected' = choice.selected
           /\ dl_stream_qual' = choice.stream_qual
           /\ dl_stream_lang' = choice.stream_lang
           /\ IF choice.returns_none
                THEN Return(ReturnedNone)
              ELSE IF choice.selected = Nothing
                THEN Return(Failure(choice.stream_lang, "No stream URL"))
              ELSE /\ dl_pc' = "playlist_url"
                   /\ UNCHANGED <<dl_result, dl_tmpdir>>
    /\ UNCHANGED <<dl_quality, dl_audio, dl_streams, dl_calls>>
    /\ UNCHANGED <<orchVars, gateVars, selVars, progVars, cacheVars, sweepVars, epVars, cmdVars, fuzzyVars, batchVars>>

\* playlist_url = await self.client.get_playlist_url(stream_url); with a URL,
\* tmpdir = tempfile.mkdtemp(...).
DlGetPlaylistUrl ==
    /\ dl_pc = "playlist_url"
    /\ dl_calls' = Append(dl_calls, "get_playlist_url")
    /\ \/ /\ dl_tmpdir' = "exists"
          /\ dl_pc' = "fetch_playlist"
          /\ dl_result' = dl_result
       \/ Return(Failure(dl_stream_lang, "No playlist URL"))
       \/ Return(Caught)
    /\ UNCHANGED <<dl_quality, dl_audio, dl_streams, dl_selected, dl_stream_qual, dl_stream_lang>>
    /\ UNCHANGED <<orchVars, gateVars, selVars, progVars, cacheVars, sweepVars, epVars, cmdVars, fuzzyVars, batchVars>>

\* Mutant of DlFetchPlaylist: without a playlist the segments are requested
\* all the same before the failure is returned.
DlFetchPlaylist_GoesOn ==
    /\ dl_pc = "fetch_playlist"
    /\ \/ /\ dl_calls' = Append(dl_calls, "download_playlist")
          /\ dl_pc' = "segments"
          /\ UNCHANGED <<dl_result, dl_tmpdir>>
       \/ /\ dl_calls' = Append(Append(dl_calls, "download_playlist"), "download_from_playlist")
          /\ LeaveTry(Failure(dl_stream_lang, "Failed to fetch playlist"))
    /\ UNCHANGED <<dl_quality, dl_audio, dl_streams, dl_selected, dl_stream_qual, dl_stream_lang>>
    /\ UNCHANGED <<orchVars, gateVars, selVars, progVars, cacheVars, sweepVars, epVars, cmdVars, fuzzyVars, batchVars>>

\* playlist_path = await self.client.download_playlist(playlist_url, tmpdir)
DlFetchPlaylist ==
    /\ dl_pc = "fetch_playlist"
    /\ dl_calls' = Append(dl_calls, "download_playlist")
    /\ \/ /\ dl_pc' = "segments"
          /\ UNCHANGED <<dl_result, dl_tmpdir>>
       \/ LeaveTry(Failure(dl_stream_lang, "Failed to fetch playlist"))
       \/ LeaveTry(Caught)
    /\ UNCHANGED <<dl_quality, dl_audio, dl_streams, dl_selected, dl_stream_qual, dl_stream_lang>>
    /\ UNCHANGED <<orchVars, gateVars, selVars, progVars, cacheVars, sweepVars, epVars, cmdVars, fuzzyVars, batchVars>>

\* success = await self.client.download_from_playlist(playlist_path, ...)
\* (download_episode_async is None, so the else branch runs).
DlFetchSegments ==
    /\ dl_pc = "segments"
    /\ dl_calls' = Append(dl_calls, "download_from_playlist")
    /\ \/ /\ dl_pc' = "compile"
          /\ UNCHANGED <<dl_result, dl_tmpdir>>
       \/ LeaveTry(Failure(dl_stream_lang, "Failed to download segments"))
       \/ LeaveTry(Caught)
    /\ UNCHANGED <<dl_quality, dl_audio, dl_streams, dl_selected, dl_stream_qual, dl_stream_lang>>
    /\ UNCHANGED <<orchVars, gateVars, selVars, progVars, cacheVars, sweepVars, epVars, cmdVars, fuzzyVars, batchVars>>

\* The result after compile_video: compiled; or not compiled and a finished
\* .mp4/.mkv found in tmpdir is moved to output_path (shutil.move may raise);
\* or nothing to move; or compile_video raised.
CompileOutcome(compiled, found, moved) ==
    IF compiled = "raises" THEN Caught
    ELSE IF compiled = "True" THEN Success(dl_stream_qual, dl_stream_lang)
    ELSE IF ~found THEN Failure(dl_stream_lang, "Failed to compile video")
    ELSE IF moved THEN Success(dl_stream_qual, dl_stream_lang)
    ELSE Caught

\* compiled = await self.client.compile_video(tmpdir, output_path, ...) and
\* the fallback on a file the download already produced.
DlCompile ==
    /\ dl_pc = "compile"
    /\ dl_calls' = Append(dl_calls, "compile_video")
    /\ \E compiled \in {"True", "False", "raises"}, found \in BOOLEAN, moved \in BOOLEAN :
          LeaveTry(CompileOutcome(compiled, found, moved))
    /\ UNCHANGED <<dl_quality, dl_audio, dl_streams, dl_selected, dl_stream_qual, dl_stream_lang>>
    /\ UNCHANGED <<orchVars, gateVars, selVars, progVars, cacheVars, sweepVars, epVars, cmdVars, fuzzyVars, batchVars>>

DlNext ==
    \/ DlGetStreams
    \/ DlSelect
    \/ DlGetPlaylistUrl
    \/ DlFetchPlaylist
    \/ DlFetchSegments
    \/ DlCompile

DlSpecInit == OrchIdle /\ GateIdle /\ DlInit /\ SelIdle /\ ProgIdle /\ CacheIdle /\ SweepIdle /\ EpIdle /\ CmdIdle /\ FuzzyIdle /\ BatchIdle

DlSpec == DlSpecInit /\ [][DlNext]_vars

\* ------------------------------------------------------------------------
\* Properties of download_episode
\* ------------------------------------------------------------------------

\* C5: whatever the preferences and whatever the provider does, what
\* download_episode hands back is an EpisodeDownloadResult (no exception
\* leaves it, and it returns nothing else).
C5_AlwaysADownloadResult ==
    dl_pc = "done" => dl_result.kind = "EpisodeDownloadResult"

C23_BadQualityRejectedFirst ==
    (dl_pc = "done" /\ ParseInt(dl_quality) = Nothing) =>
        /\ dl_calls = <<>>
        /\ dl_result.kind = "EpisodeDownloadResult"
        /\ ~dl_result.success

\* C27: in every EpisodeDownloadResult download_episode returns, success is
\* true exactly when filepath is set and reason is absent, and false exactly
\* when filepath is absent and reason is set.
C27_ResultWellFormed ==
    (dl_pc = "done" /\ dl_result.kind = "EpisodeDownloadResult") =>
        /\ dl_result.success <=> (dl_result.filepath # Nothing /\ dl_result.reason = Nothing)
        /\ ~dl_result.success <=> (dl_result.filepath = Nothing /\ dl_result.reason # Nothing)

\* C27 witness: a call that compiled the video and returned the output path.
C27_Witness ==
    /\ dl_pc = "done"
    /\ dl_result.kind = "EpisodeDownloadResult"
    /\ dl_result.success
    /\ dl_result.filepath = Some("output_path")
    /\ dl_calls[Len(dl_calls)] = "compile_video"

\* C30: a successful result carries the quality and the audio of the stream
\* that was selected, also after a downgrade or an audio fallback.
C30_ResultNamesSelectedVariant ==
    (dl_pc = "done" /\ dl_result.kind = "EpisodeDownloadResult" /\ dl_result.success) =>
        /\ dl_result.episode_qual = Some(dl_selected[1].quality_val)
        /\ dl_result.episode_lang = dl_selected[1].audio

\* C31: a call that got no streams for the episode (no page, or a page
\* without buttons) returns a failed result whose reason is "No stream URL".
C31_NoStreamsReported ==
    (dl_pc = "done" /\ dl_streams = Nothing) =>
        /\ dl_result.kind = "EpisodeDownloadResult"
        /\ ~dl_result.success
        /\ dl_result.reason = Some("No stream URL")

\* The provider operations of download_episode, in the order of the stages,
\* and the reason reported when the operation hands back nothing.
StageOrder ==
    <<"get_stream_qualities", "get_playlist_url", "download_playlist",
      "download_from_playlist", "compile_video">>
StageReason ==
    <<"No stream URL", "No playlist URL", "Failed to fetch playlist",
      "Failed to download segments", "Failed to compile video">>

\* The call is over with a failed EpisodeDownloadResult.
DlFailed ==
    dl_pc = "done" /\ dl_result.kind = "EpisodeDownloadResult" /\ ~dl_result.success

C32_StateOrder ==
    /\ Len(dl_calls) <= Len(StageOrder)
    /\ \A i \in 1..Len(dl_calls) : dl_calls[i] = StageOrder[i]
    /\ \A k \in 2..Len(StageOrder) :
          (DlFailed /\ dl_result.reason = Some(StageReason[k])) => Len(dl_calls) = k
    /\ (DlFailed /\ Len(dl_calls) >= 2) =>
          dl_result.reason \in {Some(StageReason[Len(dl_calls)]), Some("str(exc)")}

PROGRESS_UPDATE_INTERVAL == 5

\* The percentage step of the condition of progress_cb.
PercentStep == 5

\* File sizes, in units of the smallest part sent (0: an empty file).
Totals == {0, 40}

\* What one callback adds to current: 1 or 2 units, or the rest of the file.
PartSizes == {1, 2, 40}

\* Seconds that pass between two callbacks.
ClockSteps == {2, 5}

\* time.time() when the upload starts: seconds since the epoch.
StartClocks == {1000}

\* percent = int((current / total) * 100) if total else 0
Percent(current, total) ==
    IF total # 0 THEN (current * 100) \div total ELSE 0

\* Mutant of Accepts: either the interval or the step is enough.
Accepts_Either(cur_time, percent, last) ==
    \/ cur_time - last.time >= PROGRESS_UPDATE_INTERVAL
    \/ percent - last.percent >= PercentStep
    \/ percent = 100

\* The condition under which progress_cb accepts an update.
Accepts(cur_time, percent, last) ==
    \/ /\ cur_time - last.time >= PROGRESS_UPDATE_INTERVAL
       /\ percent - last.percent >= PercentStep
    \/ percent = 100

\* last_update = {"time": 0, "percent": 0}, made anew for every upload.
ProgInit ==
    /\ p_pc = "uploading"
    /\ p_total \in Totals
    /\ p_current = 0
    /\ p_now \in StartClocks
    /\ last_update = [time |-> 0, percent |-> 0]
    /\ p_accepted = <<>>
    /\ p_calls = 0
    /\ p_delivered = <<>>

\* progress_cb(current, total, s_time): one callback of the upload. An
\* accepted update calls status(...) without await and without create_task:
\* the coroutine object is made and dropped, its body (await
\* status_callback(msg)) never runs, so status_callback receives nothing.
progress_cb ==
    /\ p_pc = "uploading"
    /\ p_calls < MaxCallbacks
    /\ p_current < p_total \/ p_total = 0
    /\ \E dt \in ClockSteps, sent \in PartSizes :
         LET cur_time == p_now + dt
             current == Min(p_current + sent, p_total)
             percent == Percent(current, p_total)
         IN  /\ p_now' = cur_time
             /\ p_current' = current
             /\ IF Accepts(cur_time, percent, last_update)
                  THEN /\ last_update' = [time |-> cur_time, percent |-> percent]
                       /\ p_accepted' = Append(p_accepted, last_update')
                  ELSE UNCHANGED <<last_update, p_accepted>>
    /\ p_calls' = p_calls + 1
    /\ UNCHANGED <<p_pc, p_total, p_delivered>>
    /\ UNCHANGED <<orchVars, gateVars, dlVars, selVars, cacheVars, sweepVars, epVars, cmdVars, fuzzyVars, batchVars>>

\* The last part was sent: upload_file makes no further callback.
UploadComplete ==
    /\ p_pc = "uploading"
    /\ p_current = p_total
    /\ p_total # 0
    /\ p_pc' = "done"
    /\ UNCHANGED <<p_total, p_current, p_now, last_update, p_accepted, p_calls, p_delivered>>
    /\ UNCHANGED <<orchVars, gateVars, dlVars, selVars, cacheVars, sweepVars, epVars, cmdVars, fuzzyVars, batchVars>>

ProgNext ==
    \/ progress_cb
    \/ UploadComplete

ProgSpecInit == OrchIdle /\ GateIdle /\ DlIdle /\ SelIdle /\ ProgInit /\ CacheIdle /\ SweepIdle /\ EpIdle /\ CmdIdle /\ FuzzyIdle /\ BatchIdle

ProgSpec == ProgSpecInit /\ [][ProgNext]_vars

\* ------------------------------------------------------------------------
\* Properties of progress_cb
\* ------------------------------------------------------------------------

\* C15: every accepted update reports 100 percent, or comes at least 5
\* seconds and 5 percentage points after the accepted update before it (the
\* first one: at least 5 points above 0); hence two successive accepted
\* updates below 100 percent are at least 5 seconds and 5 points apart.
C15_ProgressDebounced ==
    /\ \A k \in 1..Len(p_accepted) :
         \/ p_accepted[k].percent = 100
         \/ IF k = 1
              THEN p_accepted[k].percent >= 5
              ELSE /\ p_accepted[k].time - p_accepted[k - 1].time >= 5
                   /\ p_accepted[k].percent - p_accepted[k - 1].percent >= 5
    /\ \A k \in 2..Len(p_accepted) :
         (p_accepted[k].percent < 100 /\ p_accepted[k - 1].percent < 100) =>
            /\ p_accepted[k].time - p_accepted[k - 1].time >= 5
            /\ p_accepted[k].percent - p_accepted[k - 1].percent >= 5

\* C15 witness: the upload is over; two successive updates below 100 percent
\* were accepted, callbacks were rejected on the way, and the last update,
\* 100 percent, was accepted less than 5 seconds after the one before it.
C15_Witness ==
    /\ p_pc = "done"
    /\ Len(p_accepted) = 3
    /\ p_calls > 3
    /\ p_accepted[2].percent < 100
    /\ p_accepted[3].percent = 100
    /\ p_accepted[3].time - p_accepted[2].time < 5

\* C33: when the upload is over, every update progress_cb accepted (the one
\* at 100 percent included) has been delivered to the status callback.
C33_AcceptedUpdatesDelivered ==
    p_pc = "done" => p_delivered = p_accepted

\* =========================================================================
\* load_from_cache: the catalog snapshot
\* =========================================================================

\* The lines a snapshot file may hold, each as its pieces between "::::"
\* separators: a line without a separator, a blank line, a record, and a
\* record whose title holds the separator.
Lines == { <<"junk">>, <<"">>, <<"naruto", "Naruto">>, <<"re-zero", "Re", "Zero">> }

\* The snapshot files load_from_cache may find: none, or a file last
\* modified within the day or before it, with up to MaxLines lines.
CacheFiles ==
    {Nothing} \cup { Some([stale |-> a, lines |-> l]) :
                        a \in BOOLEAN, l \in SeqsUpTo(Lines, MaxLines) }

\* _is_fresh(path): False without a file, when stat raises, and when the
\* file was modified more than freshness_threshold ago.
is_fresh(file, stat_raises) ==
    IF file = Nothing \/ stat_raises THEN FALSE ELSE ~file[1].stale

\* slug, title = line.strip().split("::::", 1): None for the ValueError of
\* a line without a separator.
ParseLine(line) ==
    IF Len(line) < 2 THEN Nothing
    ELSE Some([session |-> line[1], title |-> Tail(line)])

\* Mutant of read_cache: a line that cannot be unpacked is skipped.
read_cache_SkipsBadLines(lines) ==
    LET good == SelectSeq(lines, LAMBDA l : ParseLine(l) # Nothing)
    IN  IF good = <<>> THEN Nothing
        ELSE Some([i \in 1..Len(good) |-> ParseLine(good[i])[1]])

\* _read_cache(): the records of the lines, or None when a line cannot be
\* unpacked or when there is no record ("Cache file is empty").
read_cache(lines) ==
    IF lines = <<>> \/ \E i \in 1..Len(lines) : ParseLine(lines[i]) = Nothing
        THEN Nothing
        ELSE Some([i \in 1..Len(lines) |-> ParseLine(lines[i])[1]])

\* One more entry in the history of the call.
Did(what) == c_events' = Append(c_events, what)

CacheInit ==
    /\ c_pc = "start"
    /\ c_file \in CacheFiles
    /\ c_events = <<>>
    /\ c_result = Nothing

\* Mutant of Leave: an exception raised inside the try leaves the call.
Leave_Propagates(outcome) ==
    IF outcome = Nothing
        THEN c_result' = c_result /\ c_pc' = "raised"
        ELSE c_result' = outcome /\ c_pc' = "returned"

\* The end of the try block: return the value, or for an exception (None)
\* except Exception: return [].
Leave(outcome) ==
    /\ c_result' = IF outcome = Nothing THEN Some(<<>>) ELSE outcome
    /\ c_pc' = "returned"

\* if not _is_fresh(cache_path):
CheckFresh ==
    /\ c_pc = "start"
    /\ \E stat_raises \in BOOLEAN :
         IF is_fresh(c_file, stat_raises)
            THEN Did("fresh") /\ c_pc' = "exists"
            ELSE Did("not fresh") /\ c_pc' = "refresh"
    /\ UNCHANGED <<c_file, c_result>>
    /\ UNCHANGED <<orchVars, gateVars, dlVars, selVars, progVars, sweepVars, epVars, cmdVars, fuzzyVars, batchVars>>

\* await loop.run_in_executor(None, lambda: api._api.download_anime_list_cache):
\* the lambda hands back the bound method and nothing calls it, so the
\* snapshot file stays as it is; or the executor call raises.
RequestRefresh ==
    /\ c_pc = "refresh"
    /\ \/ Did("lambda returned download_anime_list_cache") /\ c_pc' = "exists"
             /\ c_result' = c_result
       \/ Did("refresh raised") /\ Leave(Nothing)
    /\ UNCHANGED c_file
    /\ UNCHANGED <<orchVars, gateVars, dlVars, selVars, progVars, sweepVars, epVars, cmdVars, fuzzyVars, batchVars>>

\* if not cache_path.exists(): return []
CheckExists ==
    /\ c_pc = "exists"
    /\ IF c_file = Nothing
         THEN Did("absent") /\ Leave(Some(<<>>))
         ELSE Did("exists") /\ c_pc' = "read" /\ c_result' = c_result
    /\ UNCHANGED c_file
    /\ UNCHANGED <<orchVars, gateVars, dlVars, selVars, progVars, sweepVars, epVars, cmdVars, fuzzyVars, batchVars>>

\* animes = await loop.run_in_executor(None, _read_cache); return animes.
\* Opening the file may raise.
ReadCache ==
    /\ c_pc = "read"
    /\ \/ Did("read") /\ Leave(read_cache(c_file[1].lines))
       \/ Did("open raised") /\ Leave(Nothing)
    /\ UNCHANGED c_file
    /\ UNCHANGED <<orchVars, gateVars, dlVars, selVars, progVars, sweepVars, epVars, cmdVars, fuzzyVars, batchVars>>

CacheNext ==
    \/ CheckFresh
    \/ RequestRefresh
    \/ CheckExists
    \/ ReadCache

CacheSpecInit == OrchIdle /\ GateIdle /\ DlIdle /\ SelIdle /\ ProgIdle /\ CacheInit /\ SweepIdle /\ EpIdle /\ CmdIdle /\ FuzzyIdle /\ BatchIdle

CacheSpec == CacheSpecInit /\ [][CacheNext]_vars

\* ------------------------------------------------------------------------
\* Properties of load_from_cache
\* ------------------------------------------------------------------------

\* Event what is in the history of the call.
CacheDid(what) == \E i \in 1..Len(c_events) : c_events[i] = what

\* C16: when the snapshot is absent or was modified more than a day ago, the
\* provider's download_anime_list_cache has been executed by the time the
\* snapshot file is read.
C16_RefreshBeforeRead ==
    \A i \in 1..Len(c_events) :
        (c_events[i] = "read" /\ (c_file = Nothing \/ c_file[1].stale)) =>
            \E j \in 1..(i - 1) : c_events[j] = "download_anime_list_cache()"

\* C17: no exception leaves load_from_cache, and it returns [] when the
\* snapshot is absent after the refresh attempt, when the snapshot holds no
\* record, and when the refresh or the read raised.
C17_NeverRaises ==
    /\ c_pc # "raised"
    /\ c_pc = "returned" =>
         /\ c_result # Nothing
         /\ (\/ c_file = Nothing
             \/ c_file[1].lines = <<>>
             \/ CacheDid("refresh raised")
             \/ CacheDid("open raised")
             \/ (CacheDid("read") /\ read_cache(c_file[1].lines) = Nothing)) =>
                c_result = Some(<<>>)

\* C17 witness: a stale snapshot was read after the refresh request and held
\* a line that cannot be unpacked; [] was returned.
C17_Witness ==
    /\ c_pc = "returned"
    /\ c_file # Nothing
    /\ c_file[1].stale
    /\ Len(c_file[1].lines) = 2
    /\ CacheDid("read")
    /\ read_cache(c_file[1].lines) = Nothing
    /\ c_result = Some(<<>>)

\* One entry per line, in file order: the text before the first "::::" and
\* the text after it.
CompleteSnapshot(lines) ==
    [i \in 1..Len(lines) |-> [session |-> lines[i][1], title |-> Tail(lines[i])]]

\* C38: load_from_cache returns [] or the complete snapshot, never a part of
\* it; with a line that has no "::::" (a blank line included) it returns [].
C38_AllOrNothing ==
    c_pc = "returned" =>
        /\ \/ c_result = Some(<<>>)
           \/ c_file # Nothing /\ c_result = Some(CompleteSnapshot(c_file[1].lines))
        /\ (c_file # Nothing /\ \E i \in 1..Len(c_file[1].lines) : Len(c_file[1].lines[i]) < 2) =>
              c_result = Some(<<>>)

\* C38 witness: a snapshot of two records was returned whole, the title of
\* the first one holding the separator.
C38_Witness ==
    /\ c_pc = "returned"
    /\ Len(c_result[1]) = 2
    /\ c_result[1][1] = [session |-> "re-zero", title |-> <<"Re", "Zero">>]
    /\ c_result[1][2].session = "naruto"

\* =========================================================================
\* cleanup_loop: the retention sweeper, and the shutdown path of main
\* =========================================================================

\* settings.file_retention_seconds
file_retention_seconds == 7 * 24 * 3600

\* cleanup.CLEANUP_INTERVAL_SECONDS
CLEANUP_INTERVAL_SECONDS == 3600

\* The files under the download directory, in the order os.walk lists them.
Files == 1..NumFiles

\* The names of the files: the media file of an episode is named after the
\* title and the episode number; files of different subdirectories may bear
\* the same name.
FileNames == {"a_ep1.mp4", "a_ep2.mp4"}

\* The archive directory when cleanup_loop starts: empty, or holding under
\* the first name a file archived earlier (file 0).
ArchivesAtStart ==
    { [n \in FileNames |-> <<>>],
      [n \in FileNames |-> IF n = "a_ep1.mp4" THEN <<0>> ELSE <<>>] }

\* time.time() when cleanup_loop is created: seconds since the epoch.
SweepStartClocks == {1000000}

\* Ages of the files at that time: past the retention age, exactly at it,
\* one second short of it (past it a cycle later), and half of it.
InitialAges ==
    { file_retention_seconds + 1, file_retention_seconds,
      file_retention_seconds - 1, file_retention_seconds \div 2 }

\* What the file system answers for one file: whether getmtime, os.replace
\* and os.remove succeed. A file the cycle has not listed is not seen.
NotSeen == [seen |-> FALSE, mtime_ok |-> TRUE, replace_ok |-> TRUE, remove_ok |-> TRUE]
Answers ==
    { [seen |-> TRUE, mtime_ok |-> m, replace_ok |-> r, remove_ok |-> d] :
        m \in BOOLEAN, r \in BOOLEAN, d \in BOOLEAN }

\* The answers that differ in what the loop body asks: os.replace is asked
\* only after getmtime succeeded, os.remove only after os.replace failed.
AnswersAsked(old) ==
    { a \in Answers :
        /\ (~a.mtime_ok \/ ~old) => a.replace_ok
        /\ a.replace_ok => a.remove_ok }

\* Mutant of SweepFile: a failed relocation is not followed by a deletion.
SweepFile_NoFallback(age, a) ==
    IF ~a.mtime_ok THEN "download"
    ELSE IF age >= file_retention_seconds
        THEN IF a.replace_ok THEN "archive" ELSE "download"
    ELSE "download"

\* Mutant of SweepFile: the age of the file is not looked at.
SweepFile_AnyAge(age, a) ==
    IF ~a.mtime_ok THEN "download"
    ELSE IF a.replace_ok THEN "archive"
    ELSE IF a.remove_ok THEN "deleted"
    ELSE "download"

\* The body of the inner for loop, for a file of the download directory:
\* where the file is afterwards.
SweepFile(age, a) ==
    IF ~a.mtime_ok THEN "download"
    ELSE IF age >= file_retention_seconds
        THEN IF a.replace_ok THEN "archive"
             ELSE IF a.remove_ok THEN "deleted"
             ELSE "download"
    ELSE "download"

\* main has created the cleanup_loop task and awaits run_until_disconnected.
SweepInit ==
    /\ s_pc = "created"
    /\ stop_event = FALSE
    /\ s_clock \in SweepStartClocks
    /\ s_mtime \in [Files -> { c - a : c \in SweepStartClocks, a \in InitialAges }]
    /\ s_name \in [Files -> FileNames]
    /\ s_archive \in ArchivesAtStart
    /\ s_where = [f \in Files |-> "download"]
    /\ s_visit = [f \in Files |-> NotSeen]
    /\ s_now = 0
    /\ s_next = 0
    /\ s_cycles = 0
    /\ m_pc = "running"

\* The task starts: os.makedirs of both directories.
SweeperStart ==
    /\ s_pc = "created"
    /\ s_pc' = "loop"
    /\ UNCHANGED <<stop_event, s_mtime, s_name, s_archive, s_where, s_visit, s_now, s_clock, s_next, s_cycles, m_pc>>
    /\ UNCHANGED <<orchVars, gateVars, dlVars, selVars, progVars, cacheVars, epVars, cmdVars, fuzzyVars, batchVars>>

\* while not stop_event.is_set(): now = time.time(); the walk begins.
LoopTest ==
    /\ s_pc = "loop"
    /\ IF stop_event
         THEN /\ s_pc' = "ended"
              /\ UNCHANGED <<s_visit, s_now, s_next, s_cycles>>
         ELSE /\ s_pc' = "walking"
              /\ s_now' = s_clock
              /\ s_visit' = [f \in Files |-> NotSeen]
              /\ s_next' = 1
              /\ s_cycles' = s_cycles + 1
    /\ UNCHANGED <<stop_event, s_mtime, s_name, s_archive, s_where, s_clock, m_pc>>
    /\ UNCHANGED <<orchVars, gateVars, dlVars, selVars, progVars, cacheVars, epVars, cmdVars, fuzzyVars, batchVars>>

\* dest = os.path.join(archive_dir, fname); os.replace(fpath, dest): the
\* archive entry of the file's name now holds file f, whatever it held.
Archived(archive, f, where) ==
    IF where = "archive"
        THEN [archive EXCEPT ![s_name[f]] = Append(@, f)]
        ELSE archive

\* Mutant of VisitFile: an error on a file ends the walk of the cycle.
VisitFile_Aborts ==
    /\ s_pc = "walking"
    /\ s_next <= NumFiles
    /\ IF s_where[s_next] = "download"
         THEN \E a \in AnswersAsked(s_now - s_mtime[s_next] >= file_retention_seconds) :
                /\ s_visit' = [s_visit EXCEPT ![s_next] = a]
                /\ s_where' = [s_where EXCEPT
                                  ![s_next] = SweepFile(s_now - s_mtime[s_next], a)]
                /\ s_archive' = Archived(s_archive, s_next, s_where'[s_next])
                /\ s_next' = IF a.mtime_ok /\ a.replace_ok THEN s_next + 1 ELSE NumFiles + 1
         ELSE UNCHANGED <<s_visit, s_where, s_archive>> /\ s_next' = s_next + 1
    /\ UNCHANGED <<s_pc, stop_event, s_mtime, s_name, s_now, s_clock, s_cycles, m_pc>>
    /\ UNCHANGED <<orchVars, gateVars, dlVars, selVars, progVars, cacheVars, epVars, cmdVars, fuzzyVars, batchVars>>

\* One turn of the inner for loop: the next file os.walk lists. A file that
\* is no longer under the download directory is not listed.
VisitFile ==
    /\ s_pc = "walking"
    /\ s_next <= NumFiles
    /\ IF s_where[s_next] = "download"
         THEN \E a \in AnswersAsked(s_now - s_mtime[s_next] >= file_retention_seconds) :
                /\ s_visit' = [s_visit EXCEPT ![s_next] = a]
                /\ s_where' = [s_where EXCEPT
                                  ![s_next] = SweepFile(s_now - s_mtime[s_next], a)]
                /\ s_archive' = Archived(s_archive, s_next, s_where'[s_next])
         ELSE UNCHANGED <<s_visit, s_where, s_archive>>
    /\ s_next' = s_next + 1
    /\ UNCHANGED <<s_pc, stop_event, s_mtime, s_name, s_now, s_clock, s_cycles, m_pc>>
    /\ UNCHANGED <<orchVars, gateVars, dlVars, selVars, progVars, cacheVars, epVars, cmdVars, fuzzyVars, batchVars>>

\* The walk is over: await asyncio.wait_for(stop_event.wait(), timeout=...).
BeginWait ==
    /\ s_pc = "walking"
    /\ s_next > NumFiles
    /\ s_pc' = "waiting"
    /\ UNCHANGED <<stop_event, s_mtime, s_name, s_archive, s_where, s_visit, s_now, s_clock, s_next, s_cycles, m_pc>>
    /\ UNCHANGED <<orchVars, gateVars, dlVars, selVars, progVars, cacheVars, epVars, cmdVars, fuzzyVars, batchVars>>

\* except asyncio.TimeoutError: continue. The interval passed without the
\* stop signal.
WaitTimesOut ==
    /\ s_pc = "waiting"
    /\ ~stop_event
    /\ s_cycles < MaxCycles
    /\ s_clock' = s_clock + CLEANUP_INTERVAL_SECONDS
    /\ s_pc' = "loop"
    /\ UNCHANGED <<stop_event, s_mtime, s_name, s_archive, s_where, s_visit, s_now, s_next, s_cycles, m_pc>>
    /\ UNCHANGED <<orchVars, gateVars, dlVars, selVars, progVars, cacheVars, epVars, cmdVars, fuzzyVars, batchVars>>

\* Mutant of Wake: a plain sleep, which ends when the interval has passed.
Wake_AfterInterval ==
    /\ s_pc = "waiting"
    /\ stop_event
    /\ s_clock' = s_clock + CLEANUP_INTERVAL_SECONDS
    /\ s_pc' = "loop"
    /\ UNCHANGED <<stop_event, s_mtime, s_name, s_archive, s_where, s_visit, s_now, s_next, s_cycles, m_pc>>
    /\ UNCHANGED <<orchVars, gateVars, dlVars, selVars, progVars, cacheVars, epVars, cmdVars, fuzzyVars, batchVars>>

\* stop_event.wait() returns because the event is set: wait_for returns and
\* the loop goes back to its test.
Wake ==
    /\ s_pc = "waiting"
    /\ stop_event
    /\ s_pc' = "loop"
    /\ UNCHANGED <<stop_event, s_mtime, s_name, s_archive, s_where, s_visit, s_now, s_clock, s_next, s_cycles, m_pc>>
    /\ UNCHANGED <<orchVars, gateVars, dlVars, selVars, progVars, cacheVars, epVars, cmdVars, fuzzyVars, batchVars>>

\* main: run_until_disconnected is over; finally: stop_event.set() and
\* await cleanup_task. main runs only while the sweeper task is suspended
\* (not started yet, or in its wait).
Disconnect ==
    /\ m_pc = "running"
    /\ s_pc \in {"created", "waiting"}
    /\ stop_event' = TRUE
    /\ m_pc' = "awaiting cleanup_task"
    /\ UNCHANGED <<s_pc, s_mtime, s_name, s_archive, s_where, s_visit, s_now, s_clock, s_next, s_cycles>>
    /\ UNCHANGED <<orchVars, gateVars, dlVars, selVars, progVars, cacheVars, epVars, cmdVars, fuzzyVars, batchVars>>

\* main: await cleanup_task returns once the task is over; RedisClient.close().
MainCompletes ==
    /\ m_pc = "awaiting cleanup_task"
    /\ s_pc = "ended"
    /\ m_pc' = "closed"
    /\ UNCHANGED <<s_pc, stop_event, s_mtime, s_name, s_archive, s_where, s_visit, s_now, s_clock, s_next, s_cycles>>
    /\ UNCHANGED <<orchVars, gateVars, dlVars, selVars, progVars, cacheVars, epVars, cmdVars, fuzzyVars, batchVars>>

\* The steps of the cleanup_loop task.
SweeperStep ==
    \/ SweeperStart
    \/ LoopTest
    \/ VisitFile
    \/ BeginWait
    \/ WaitTimesOut
    \/ Wake

SweepNext ==
    \/ SweeperStep
    \/ Disconnect
    \/ MainCompletes

SweepSpecInit ==
    /\ OrchIdle /\ GateIdle /\ DlIdle /\ SelIdle /\ ProgIdle /\ CacheIdle /\ SweepInit
    /\ EpIdle /\ CmdIdle
    /\ FuzzyIdle
    /\ BatchIdle

SweepSpec == SweepSpecInit /\ [][SweepNext]_vars

\* The start of the runs whose termination is examined: file names and the
\* archive enter no condition of cleanup_loop, so one name and an empty
\* archive stand for all.
SweepLiveInit ==
    /\ SweepSpecInit
    /\ s_name = [f \in Files |-> "a_ep1.mp4"]
    /\ s_archive = [n \in FileNames |-> <<>>]

\* The event loop runs every task that is ready: the sweeper task and main
\* each take their next step when they have one.
SweepLiveSpec ==
    SweepLiveInit /\ [][SweepNext]_vars /\ WF_vars(SweeperStep) /\ WF_vars(MainCompletes)

\* ------------------------------------------------------------------------
\* Properties of cleanup_loop
\* ------------------------------------------------------------------------

\* File f is older than the retention age in the current cycle.
Older(f) == s_now - s_mtime[f] > file_retention_seconds

\* File f is younger than the retention age in the current cycle.
Younger(f) == s_now - s_mtime[f] < file_retention_seconds

\* The walk of the current cycle is over.
CycleDone == s_pc = "waiting"

C19_YoungFilesUntouched ==
    [][/\ s_pc = "walking" =>
            \A f \in Files : Younger(f) => s_where'[f] = s_where[f]
       /\ s_pc # "walking" => s_where' = s_where]_vars

\* C19 witness: a cycle is over in which an old file was relocated and a
\* younger file, found by the same walk, is still under the download
\* directory.
C19_Witness ==
    /\ CycleDone
    /\ \E f, g \in Files :
         /\ s_visit[f].seen /\ Younger(f) /\ s_where[f] = "download"
         /\ s_visit[g].seen /\ Older(g) /\ s_where[g] = "archive"

\* C20: once the stop signal is raised no further cycle starts and no
\* interval is waited out any more, and the sweeper task ends and main
\* gets past its await of the task.
C20_StopEndsSweeper ==
    /\ [][stop_event => (s_cycles' = s_cycles /\ s_clock' = s_clock)]_vars
    /\ stop_event ~> (s_pc = "ended" /\ m_pc = "closed")

\* C20 witness: the stop signal was raised during the wait after the first
\* cycle; the task ended before the interval passed and main went on.
C20_Witness ==
    /\ s_pc = "ended"
    /\ m_pc = "closed"
    /\ stop_event
    /\ s_cycles = 1
    /\ s_clock \in SweepStartClocks

\* The walk of the current cycle is past file f.
Passed(f) == s_pc = "waiting" \/ (s_pc = "walking" /\ f < s_next)

\* getmtime failed for file f, or its relocation and then its deletion did.
ErrorOn(f) ==
    /\ s_visit[f].seen
    /\ \/ ~s_visit[f].mtime_ok
       \/ ~s_visit[f].replace_ok /\ ~s_visit[f].remove_ok

\* C35: whatever error the cycle met on other files, every file the walk
\* is past and that is still under the download directory was examined, and
\* an examined file of retention age whose relocation or deletion succeeded
\* is no longer there.
C35_ErrorsDoNotAbortCycle ==
    \A f \in Files :
        Passed(f) =>
            /\ s_where[f] = "download" => s_visit[f].seen
            /\ (/\ s_visit[f].seen
                /\ s_visit[f].mtime_ok
                /\ s_now - s_mtime[f] >= file_retention_seconds
                /\ s_visit[f].replace_ok \/ s_visit[f].remove_ok) => s_where[f] # "download"

\* C35 witness: a cycle is over in which the first file could not be
\* handled (an error) and the last file was relocated into the archive.
C35_Witness ==
    /\ CycleDone
    /\ ErrorOn(1)
    /\ s_visit[NumFiles].seen
    /\ s_visit[NumFiles].replace_ok
    /\ s_where[NumFiles] = "archive"

\* C39: no archive entry is ever written twice: a relocation neither
\* replaces a file that was in the archive before nor a file relocated
\* earlier under the same name.
C39_ArchiveNeverOverwritten ==
    \A n \in FileNames : Len(s_archive[n]) <= 1

\* =========================================================================
\* validate_episode_spec and expand_episode_spec_to_list
\* =========================================================================

\* The tokens a user may type between commas: their text, and for the well
\* formed ones the range lo..hi they stand for (a single integer n is n..n;
\* the 1 followed by a blank is accepted at the end of a spec only). The
\* others (well_formed = FALSE) are no token of the grammar.
Tok(text, ok, lo, hi) == [text |-> text, well_formed |-> ok, lo |-> lo, hi |-> hi]
SpecTokens ==
    { Tok(<<"1">>, TRUE, 1, 1),
      Tok(<<"3">>, TRUE, 3, 3),
      Tok(<<"0">>, TRUE, 0, 0),
      Tok(<<"2", "-", "4">>, TRUE, 2, 4),
      Tok(<<"4", "-", "2">>, TRUE, 4, 2),
      Tok(<<"1", "0", "-", "1", "2">>, TRUE, 10, 12),
      Tok(<<"1", "-">>, FALSE, 0, 0),
      Tok(<<"a">>, FALSE, 0, 0),
      Tok(<<>>, FALSE, 0, 0),
      Tok(<<" ">>, FALSE, 0, 0),
      Tok(<<"1", " ">>, TRUE, 1, 1) }

\* ",".join(texts)
RECURSIVE JoinComma(_)
JoinComma(toks) ==
    IF toks = <<>> THEN <<>>
    ELSE IF Len(toks) = 1 THEN toks[1].text
    ELSE JoinComma(SubSeq(toks, 1, Len(toks) - 1)) \o <<",">> \o toks[Len(toks)].text

\* s.strip(): leading and trailing blanks removed.
RECURSIVE Strip(_)
Strip(s) ==
    IF s = <<>> THEN s
    ELSE IF s[1] = " " THEN Strip(Tail(s))
    ELSE IF s[Len(s)] = " " THEN Strip(SubSeq(s, 1, Len(s) - 1))
    ELSE s

\* EP_SPEC_RE = ^\d+(-\d+)?(,\d+(-\d+)?)*$ as an automaton. States: 0 a
\* token starts, 1 in the first number, 2 after the hyphen, 3 in the second
\* number, 4 no match.
ReStep(q, c) ==
    IF q = 0 THEN (IF IsDigit(c) THEN 1 ELSE 4)
    ELSE IF q = 1 THEN (IF IsDigit(c) THEN 1 ELSE IF c = "-" THEN 2
                        ELSE IF c = "," THEN 0 ELSE 4)
    ELSE IF q = 2 THEN (IF IsDigit(c) THEN 3 ELSE 4)
    ELSE IF q = 3 THEN (IF IsDigit(c) THEN 3 ELSE IF c = "," THEN 0 ELSE 4)
    ELSE 4

RECURSIVE ReRun(_)
ReRun(s) ==
    IF s = <<>> THEN 0 ELSE ReStep(ReRun(SubSeq(s, 1, Len(s) - 1)), s[Len(s)])

\* bool(EP_SPEC_RE.match(spec.strip()))
validate_episode_spec(spec) == ReRun(Strip(spec)) \in {1, 3}

\* Position of the first c in s, 0 when there is none.
Find(s, c) ==
    IF \E i \in 1..Len(s) : s[i] = c
        THEN CHOOSE i \in 1..Len(s) : s[i] = c /\ \A j \in 1..(i - 1) : s[j] # c
        ELSE 0

\* s.split(c)
RECURSIVE Split(_, _)
Split(s, c) ==
    IF Find(s, c) = 0 THEN <<s>>
    ELSE <<SubSeq(s, 1, Find(s, c) - 1)>> \o Split(SubSeq(s, Find(s, c) + 1, Len(s)), c)

\* int(s): blanks around the number and a minus sign are accepted; None for
\* ValueError.
PyInt(s) ==
    LET t == Strip(s)
    IN  IF t # <<>> /\ t[1] = "-"
            THEN (IF ParseInt(Tail(t)) = Nothing THEN Nothing
                  ELSE Some(0 - ParseInt(Tail(t))[1]))
            ELSE ParseInt(t)

\* parts = [p.strip() for p in spec.split(",") if p.strip()]
Parts(spec) ==
    SelectSeq([i \in 1..Len(Split(spec, ",")) |-> Strip(Split(spec, ",")[i])],
              LAMBDA part : part # <<>>)

\* What one part adds to eps: None when int raises.
PartEpisodes(part) ==
    IF Find(part, "-") # 0
        THEN LET start == PyInt(SubSeq(part, 1, Find(part, "-") - 1))
                 end == PyInt(SubSeq(part, Find(part, "-") + 1, Len(part)))
             IN  IF start = Nothing \/ end = Nothing THEN Nothing
                 ELSE Some(start[1]..end[1])
        ELSE IF PyInt(part) = Nothing THEN Nothing ELSE Some({PyInt(part)[1]})

\* Mutant of Sorted: the numbers in descending order.
RECURSIVE Sorted_Descending(_)
Sorted_Descending(S) ==
    IF S = {} THEN <<>>
    ELSE LET m == CHOOSE x \in S : \A y \in S : x >= y
         IN  <<m>> \o Sorted_Descending(S \ {m})

\* sorted(eps)
RECURSIVE Sorted(_)
Sorted(S) ==
    IF S = {} THEN <<>>
    ELSE LET m == CHOOSE x \in S : \A y \in S : x <= y
         IN  <<m>> \o Sorted(S \ {m})

\* expand_episode_spec_to_list(spec): the list, or raised for ValueError.
expand_episode_spec_to_list(spec) ==
    LET parts == Parts(spec)
    IN  IF \E i \in 1..Len(parts) : PartEpisodes(parts[i]) = Nothing
            THEN [raised |-> TRUE, eps |-> <<>>]
            ELSE [raised |-> FALSE,
                  eps |-> Sorted(UNION { PartEpisodes(parts[i])[1] : i \in 1..Len(parts) })]

\* The spec strings: up to MaxTokens tokens with commas between them.
EpInit ==
    /\ ep_pc = "input"
    /\ ep_tokens \in SeqsUpTo(SpecTokens, MaxTokens)
    /\ ep_spec = JoinComma(ep_tokens)
    /\ ep_valid = Nothing
    /\ ep_out = Nothing

EpValidate ==
    /\ ep_pc = "input"
    /\ ep_valid' = Some(validate_episode_spec(ep_spec))
    /\ ep_pc' = "validated"
    /\ UNCHANGED <<ep_tokens, ep_spec, ep_out>>
    /\ UNCHANGED <<orchVars, gateVars, dlVars, selVars, progVars, cacheVars, sweepVars, cmdVars, fuzzyVars, batchVars>>

EpExpand ==
    /\ ep_pc = "validated"
    /\ ep_out' = Some(expand_episode_spec_to_list(ep_spec))
    /\ ep_pc' = "expanded"
    /\ UNCHANGED <<ep_tokens, ep_spec, ep_valid>>
    /\ UNCHANGED <<orchVars, gateVars, dlVars, selVars, progVars, cacheVars, sweepVars, cmdVars, fuzzyVars, batchVars>>

EpNext ==
    \/ EpValidate
    \/ EpExpand

EpSpecInit ==
    /\ OrchIdle /\ GateIdle /\ DlIdle /\ SelIdle /\ ProgIdle /\ CacheIdle /\ SweepIdle
    /\ EpInit /\ CmdIdle
    /\ FuzzyIdle
    /\ BatchIdle

EpSpec == EpSpecInit /\ [][EpNext]_vars

\* ------------------------------------------------------------------------
\* Properties of the episode spec functions
\* ------------------------------------------------------------------------

\* The spec was accepted by validate_episode_spec and has been expanded.
ExpandedValid == ep_pc = "expanded" /\ ep_valid = Some(TRUE)

\* The numbers the typed tokens stand for.
Denoted == UNION { ep_tokens[i].lo .. ep_tokens[i].hi : i \in 1..Len(ep_tokens) }

\* C21: for an accepted spec, expand returns without raising a strictly
\* ascending list whose elements are exactly the numbers its tokens stand
\* for (a token with start > end stands for none).
C21_ExpandSortedUnion ==
    ExpandedValid =>
        /\ ~ep_out[1].raised
        /\ \A i \in 1..(Len(ep_out[1].eps) - 1) : ep_out[1].eps[i] < ep_out[1].eps[i + 1]
        /\ { ep_out[1].eps[i] : i \in 1..Len(ep_out[1].eps) } = Denoted

\* C21 witness: "3,2-4,1", out of order and overlapping, gives 1, 2, 3, 4.
C21_Witness ==
    /\ ExpandedValid
    /\ ep_spec = <<"3", ",", "2", "-", "4", ",", "1">>
    /\ ep_out[1].eps = <<1, 2, 3, 4>>

\* C28: every episode number of the list expanded from an accepted spec is
\* at least 1.
C28_EpisodesPositive ==
    ExpandedValid =>
        \A i \in 1..Len(ep_out[1].eps) : ep_out[1].eps[i] >= 1

\* =========================================================================
\* download_command and spec_reply_handler: from the message to the task
\* =========================================================================

Handlers == {"download_command", "spec_reply_handler"}

\* The episode numbers the provider (or the stored session) lists.
AvailableEpisodes == { {}, {1, 2, 3} }

\* One more entry in the history of the handler.
Does(what) == h_events' = Append(h_events, what)

\* A message has arrived: its spec part is any string of up to MaxTokens
\* tokens; the chat may or may not be in the selection flow.
CmdInit ==
    /\ h_pc = "message"
    /\ h_handler \in Handlers
    /\ h_text \in { JoinComma(t) : t \in SeqsUpTo(SpecTokens, MaxTokens) }
    /\ h_spec = <<>>
    /\ h_session \in BOOLEAN
    /\ h_eps = {}
    /\ h_chosen = {}
    /\ h_events = <<>>

\* The event patterns: /download needs a non-empty group(2); the plain spec
\* handler is registered with the pattern of EP_SPEC_RE on the raw text, and
\* returns at once when the chat has no stored session.
Dispatch ==
    /\ h_pc = "message"
    /\ IF h_handler = "download_command"
         THEN h_pc' = IF h_text # <<>> THEN "validate" ELSE "ignored"
         ELSE h_pc' = IF ReRun(h_text) \notin {1, 3} THEN "ignored"
                      ELSE IF ~h_session THEN "done"
                      ELSE "validate"
    /\ h_spec' = IF h_pc' = "validate" THEN Strip(h_text) ELSE h_spec
    /\ UNCHANGED <<h_handler, h_text, h_session, h_eps, h_chosen, h_events>>
    /\ UNCHANGED <<orchVars, gateVars, dlVars, selVars, progVars, cacheVars, sweepVars, epVars, fuzzyVars, batchVars>>

\* Mutant of Reject: the reply is sent and the handler goes on.
Reject_GoesOn ==
    /\ Does("reply: invalid episode spec")
    /\ h_pc' = "expand"

\* await event.reply("Invalid episode spec ..."); return
Reject ==
    /\ Does("reply: invalid episode spec")
    /\ h_pc' = "done"

\* if not validate_episode_spec(spec): reject; else /download replies that
\* it is checking, and the plain spec handler takes the stored episodes.
Validate ==
    /\ h_pc = "validate"
    /\ IF ~validate_episode_spec(h_spec)
         THEN Reject /\ h_eps' = h_eps
         ELSE IF h_handler = "download_command"
             THEN Does("reply: checking") /\ h_pc' = "fetch" /\ h_eps' = h_eps
             ELSE /\ h_events' = h_events
                  /\ h_pc' = "expand"
                  /\ h_eps' \in AvailableEpisodes
    /\ UNCHANGED <<h_handler, h_text, h_spec, h_session, h_chosen>>
    /\ UNCHANGED <<orchVars, gateVars, dlVars, selVars, progVars, cacheVars, sweepVars, epVars, fuzzyVars, batchVars>>

\* eps = await api.fetch_episodes(...) (an exception gives []);
\* if not eps: reply and return.
FetchEpisodes ==
    /\ h_pc = "fetch"
    /\ h_eps' \in AvailableEpisodes
    /\ IF h_eps' = {}
         THEN /\ h_events' = h_events \o <<"api.fetch_episodes", "reply: could not fetch episodes">>
              /\ h_pc' = "done"
         ELSE Does("api.fetch_episodes") /\ h_pc' = "expand"
    /\ UNCHANGED <<h_handler, h_text, h_spec, h_session, h_chosen>>
    /\ UNCHANGED <<orchVars, gateVars, dlVars, selVars, progVars, cacheVars, sweepVars, epVars, fuzzyVars, batchVars>>

\* desired = expand_episode_spec_to_list(spec); chosen = the available
\* episodes among them; if not chosen: reply and return.
ExpandAndChoose ==
    /\ h_pc = "expand"
    /\ LET desired == expand_episode_spec_to_list(h_spec)
       IN  IF desired.raised
             THEN Does("expand_episode_spec_to_list") /\ h_pc' = "raised" /\ h_chosen' = h_chosen
             ELSE /\ h_chosen' = h_eps \cap { desired.eps[i] : i \in 1..Len(desired.eps) }
                  /\ IF h_chosen' = {}
                       THEN /\ h_events' = h_events \o <<"expand_episode_spec_to_list",
                                                          "reply: no matching episodes">>
                            /\ h_pc' = "done"
                       ELSE /\ Does("expand_episode_spec_to_list")
                            /\ h_pc' = IF h_handler = "download_command" THEN "cache" ELSE "task"
    /\ UNCHANGED <<h_handler, h_text, h_spec, h_session, h_eps>>
    /\ UNCHANGED <<orchVars, gateVars, dlVars, selVars, progVars, cacheVars, sweepVars, epVars, fuzzyVars, batchVars>>

\* results = await load_from_cache(api), for the title of the anime.
LookUpTitle ==
    /\ h_pc = "cache"
    /\ Does("load_from_cache")
    /\ h_pc' = "task"
    /\ UNCHANGED <<h_handler, h_text, h_spec, h_session, h_eps, h_chosen>>
    /\ UNCHANGED <<orchVars, gateVars, dlVars, selVars, progVars, cacheVars, sweepVars, epVars, fuzzyVars, batchVars>>

\* The "Queued download" message, task = DownloadUploadTask(...) and
\* asyncio.create_task(task.run(...)).
CreateTask ==
    /\ h_pc = "task"
    /\ h_events' = h_events \o <<"reply: queued", "DownloadUploadTask", "create_task">>
    /\ h_pc' = "done"
    /\ UNCHANGED <<h_handler, h_text, h_spec, h_session, h_eps, h_chosen>>
    /\ UNCHANGED <<orchVars, gateVars, dlVars, selVars, progVars, cacheVars, sweepVars, epVars, fuzzyVars, batchVars>>

CmdNext ==
    \/ Dispatch
    \/ Validate
    \/ FetchEpisodes
    \/ ExpandAndChoose
    \/ LookUpTitle
    \/ CreateTask

CmdSpecInit ==
    /\ OrchIdle /\ GateIdle /\ DlIdle /\ SelIdle /\ ProgIdle /\ CacheIdle /\ SweepIdle
    /\ EpIdle /\ CmdInit
    /\ FuzzyIdle
    /\ BatchIdle

CmdSpec == CmdSpecInit /\ [][CmdNext]_vars

\* ------------------------------------------------------------------------
\* Properties of the handlers
\* ------------------------------------------------------------------------

\* The handler did what.
HandlerDid(what) == \E i \in 1..Len(h_events) : h_events[i] = what

\* The handler has validated the spec of the message.
SpecChecked == h_pc \notin {"message", "ignored", "validate"} /\ h_spec = Strip(h_text)
                  /\ (h_handler = "spec_reply_handler" => h_session)

EXACT_MATCH_SCORE == 1000
POSITION_PENALTY == 2
CHAR_MATCH_SCORE == 10

\* The titles are a run of filler characters followed by a word; the longest
\* run puts the word past index EXACT_MATCH_SCORE / POSITION_PENALTY.
PadLengths == {0, 1, MaxPad - 2, MaxPad - 1, MaxPad}
TitleWords == { <<>>, <<"A", "b">>, <<"b", "a">>, <<"a", "-", "B">> }
Pad(n) == [i \in 1..n |-> "."]
Titles == { Pad(n) \o w : n \in PadLengths, w \in TitleWords }

\* The queries typed after /search.
Queries ==
    { <<>>, <<"a">>, <<"a", "b">>, <<"A", "B">>, <<"b", "-">>, <<"c">>, <<".", "b">> }

\* str.lower()
LowerChar(c) == IF c = "A" THEN "a" ELSE IF c = "B" THEN "b" ELSE c
Lower(s) == [i \in 1..Len(s) |-> LowerChar(s[i])]

\* query occurs in title at the 0-based index k.
OccursAt(title, query, k) ==
    /\ k + Len(query) <= Len(title)
    /\ \A i \in 1..Len(query) : title[k + i] = query[i]

\* query in title
Contains(title, query) == \E k \in 0..Len(title) : OccursAt(title, query, k)

\* title.index(query): the lowest 0-based index query occurs at.
Index(title, query) ==
    CHOOSE k \in 0..Len(title) :
        /\ OccursAt(title, query, k)
        /\ \A j \in 0..(k - 1) : ~OccursAt(title, query, j)

\* A find that ignores its start index and searches the whole title.
FindFrom_FromStart(title, char, ti) ==
    IF \E k \in 0..(Len(title) - 1) : title[k + 1] = char
        THEN CHOOSE k \in 0..(Len(title) - 1) :
                /\ title[k + 1] = char
                /\ \A j \in 0..(k - 1) : title[j + 1] # char
        ELSE -1

\* title.find(char, ti): the lowest 0-based index >= ti of char, or -1.
FindFrom(title, char, ti) ==
    IF \E k \in ti..(Len(title) - 1) : title[k + 1] = char
        THEN CHOOSE k \in ti..(Len(title) - 1) :
                /\ title[k + 1] = char
                /\ \A j \in ti..(k - 1) : title[j + 1] # char
        ELSE -1

\* The loop "for char in query" from the state (ti, score).
RECURSIVE SequenceMatch(_, _, _, _)
SequenceMatch(title, query, ti, score) ==
    IF query = <<>> THEN score
    ELSE IF FindFrom(title, Head(query), ti) = -1 THEN 0
    ELSE SequenceMatch(title, Tail(query), FindFrom(title, Head(query), ti) + 1,
                       score + CHAR_MATCH_SCORE)

fuzzy_score(title, query) ==
    IF Contains(Lower(title), Lower(query))
        THEN EXACT_MATCH_SCORE - (Index(Lower(title), Lower(query)) * POSITION_PENALTY)
        ELSE SequenceMatch(Lower(title), Lower(query), 0, 0)

FuzzyInit ==
    /\ fz_pc = "input"
    /\ fz_title \in Titles
    /\ fz_query \in Queries
    /\ fz_score = Nothing

\* score = fuzzy_score(title, query)
FuzzyScore ==
    /\ fz_pc = "input"
    /\ fz_score' = Some(fuzzy_score(fz_title, fz_query))
    /\ fz_pc' = "scored"
    /\ UNCHANGED <<fz_title, fz_query>>
    /\ UNCHANGED <<orchVars, gateVars, dlVars, selVars, progVars, cacheVars, sweepVars, epVars, cmdVars, batchVars>>

FuzzyNext == FuzzyScore

FuzzySpecInit ==
    /\ OrchIdle /\ GateIdle /\ DlIdle /\ SelIdle /\ ProgIdle /\ CacheIdle /\ SweepIdle
    /\ EpIdle /\ CmdIdle /\ FuzzyInit
    /\ BatchIdle

FuzzySpec == FuzzySpecInit /\ [][FuzzyNext]_vars

\* ------------------------------------------------------------------------
\* Properties of fuzzy_score
\* ------------------------------------------------------------------------

\* C24: the score fuzzy_score returns is never negative, for every title
\* and every query, a query found late in a long title included.
C24_ScoreNonNegative ==
    fz_pc = "scored" => fz_score[1] >= 0

\* The 1-based positions of title at which the first k characters of query
\* can end when they are laid on title left to right, gaps allowed
\* (position 0 for k = 0).
RECURSIVE EndsOfPrefix(_, _, _)
EndsOfPrefix(title, query, k) ==
    IF k = 0 THEN {0}
    ELSE { p \in 1..Len(title) :
             /\ title[p] = query[k]
             /\ \E q \in EndsOfPrefix(title, query, k - 1) : q < p }

\* The characters of query occur in title in order, not necessarily
\* next to each other.
IsSubsequence(title, query) == EndsOfPrefix(title, query, Len(query)) # {}

\* C36: when the lower-cased query is not a substring of the lower-cased
\* title, fuzzy_score returns CHAR_MATCH_SCORE * len(query) if the query's
\* characters occur in the title in order, and 0 otherwise.
C36_SubsequenceScore ==
    (fz_pc = "scored" /\ ~Contains(Lower(fz_title), Lower(fz_query)))
        => fz_score[1] = IF IsSubsequence(Lower(fz_title), Lower(fz_query))
                             THEN CHAR_MATCH_SCORE * Len(fz_query)
                             ELSE 0

\* C36 witness: a two-character query that is spread over a long title
\* without being a substring of it was scored 2 * CHAR_MATCH_SCORE.
C36_Witness ==
    /\ fz_pc = "scored"
    /\ Len(fz_query) = 2
    /\ Len(fz_title) > EXACT_MATCH_SCORE \div POSITION_PENALTY
    /\ ~Contains(Lower(fz_title), Lower(fz_query))
    /\ IsSubsequence(Lower(fz_title), Lower(fz_query))
    /\ fz_score = Some(2 * CHAR_MATCH_SCORE)


\* =========================================================================
\* Two DownloadUploadTask.run coroutines and the files of settings.download_dir
\* =========================================================================

\* The tasks download_command and spec_reply_handler created with
\* asyncio.create_task and that have not finished yet.
Tasks == {"t1", "t2"}

\* Titles of the cached anime list, as characters.
BatchTitles == { <<"a", "/", "b">>, <<"a", "_", "b">>, <<"c">> }

\* The episode lists a task is created with.
BatchEpisodes == { <<1>>, <<2>>, <<1, 2>> }

\* anime_title.replace('/', '_')
ReplaceSlash(title) ==
    [i \in 1..Len(title) |-> IF title[i] = "/" THEN "_" ELSE title[i]]

\* output_path = os.path.join(settings.download_dir, f"{title}_ep{n}.mp4")
OutputPath(title, n) == [name |-> ReplaceSlash(title), ep |-> n]

\* The media files download_dir may hold.
OutputPaths == { OutputPath(ti, n) : ti \in BatchTitles, n \in 1..2 }

\* The output path of the episode task t is at.
PathOf(t) == OutputPath(b_title[t], b_eps[t][b_idx[t]])

\* The other tasks whose res.filepath is path: they downloaded it and have
\* not yet ended the iteration for it.
UsersOf(path, t) == { u \in Tasks \ {t} : b_file[u] = Some(path) }

\* A file operation of task t on path, with the other tasks using the file.
FileOp(op, t, path) == [op |-> op, by |-> t, path |-> path, users |-> UsersOf(path, t)]

BatchInit ==
    /\ b_title \in [Tasks -> BatchTitles]
    /\ b_eps \in [Tasks -> BatchEpisodes]
    /\ b_pc = [t \in Tasks |-> "loop"]
    /\ b_idx = [t \in Tasks |-> 1]
    /\ b_file = [t \in Tasks |-> Nothing]
    /\ b_delete \in BOOLEAN
    /\ b_fs = [path \in OutputPaths |-> "absent"]
    /\ b_ops = {}

\* for ep_info in self.episodes: the next episode, or "Task finished.".
BatchLoopHead(t) ==
    /\ b_pc[t] = "loop"
    /\ b_pc' = [b_pc EXCEPT ![t] = IF b_idx[t] > Len(b_eps[t]) THEN "finished" ELSE "downloading"]
    /\ UNCHANGED <<b_title, b_eps, b_idx, b_file, b_delete, b_fs, b_ops>>
    /\ UNCHANGED <<orchVars, gateVars, dlVars, selVars, progVars, cacheVars, sweepVars, epVars, cmdVars, fuzzyVars>>

\* res = await self.downloader.download_episode(...): a failure (status,
\* sleep, continue), or the compiled video was written to (or a finished file
\* moved onto) output_path, replacing what was there.
BatchDownloadReturns(t) ==
    /\ b_pc[t] = "downloading"
    /\ \/ /\ b_pc' = [b_pc EXCEPT ![t] = "loop"]
          /\ b_idx' = [b_idx EXCEPT ![t] = b_idx[t] + 1]
          /\ UNCHANGED <<b_file, b_fs, b_ops>>
       \/ /\ b_fs' = [b_fs EXCEPT ![PathOf(t)] = t]
          /\ b_file' = [b_file EXCEPT ![t] = Some(PathOf(t))]
          /\ b_ops' = b_ops \cup {FileOp("write", t, PathOf(t))}
          /\ b_pc' = [b_pc EXCEPT ![t] = "downloaded"]
          /\ b_idx' = b_idx
    /\ UNCHANGED <<b_title, b_eps, b_delete>>
    /\ UNCHANGED <<orchVars, gateVars, dlVars, selVars, progVars, cacheVars, sweepVars, epVars, cmdVars, fuzzyVars>>

\* extractMetadata(createParser(res.filepath)) and await take_screen_shot(...):
\* with the file gone the parser raises and the exception leaves run.
BatchInspect(t) ==
    /\ b_pc[t] = "downloaded"
    /\ b_pc' = [b_pc EXCEPT ![t] = IF b_fs[PathOf(t)] = "absent" THEN "raised" ELSE "upload"]
    /\ b_file' = [b_file EXCEPT ![t] = IF b_fs[PathOf(t)] = "absent" THEN Nothing ELSE b_file[t]]
    /\ UNCHANGED <<b_title, b_eps, b_idx, b_delete, b_fs, b_ops>>
    /\ UNCHANGED <<orchVars, gateVars, dlVars, selVars, progVars, cacheVars, sweepVars, epVars, cmdVars, fuzzyVars>>

\* msg = await self.uploader.upload_file(vault, res.filepath, ...), the
\* ledger insert and the status: the file at res.filepath is sent as it is
\* now; with the file gone upload_file raises and "Upload failed" is reported.
BatchUpload(t) ==
    /\ b_pc[t] = "upload"
    /\ b_ops' = IF b_fs[PathOf(t)] = "absent" THEN b_ops
                ELSE b_ops \cup {FileOp("upload", t, PathOf(t))}
    /\ b_pc' = [b_pc EXCEPT ![t] = "cleanup"]
    /\ UNCHANGED <<b_title, b_eps, b_idx, b_file, b_delete, b_fs>>
    /\ UNCHANGED <<orchVars, gateVars, dlVars, selVars, progVars, cacheVars, sweepVars, epVars, cmdVars, fuzzyVars>>

\* if settings.delete_after_upload and os.path.exists(res.filepath):
\* os.remove(res.filepath); then the sleep that ends the iteration.
BatchCleanup(t) ==
    /\ b_pc[t] = "cleanup"
    /\ IF b_delete /\ b_fs[PathOf(t)] # "absent"
         THEN /\ b_fs' = [b_fs EXCEPT ![PathOf(t)] = "absent"]
              /\ b_ops' = b_ops \cup {FileOp("remove", t, PathOf(t))}
         ELSE UNCHANGED <<b_fs, b_ops>>
    /\ b_file' = [b_file EXCEPT ![t] = Nothing]
    /\ b_idx' = [b_idx EXCEPT ![t] = b_idx[t] + 1]
    /\ b_pc' = [b_pc EXCEPT ![t] = "loop"]
    /\ UNCHANGED <<b_title, b_eps, b_delete>>
    /\ UNCHANGED <<orchVars, gateVars, dlVars, selVars, progVars, cacheVars, sweepVars, epVars, cmdVars, fuzzyVars>>

BatchNext ==
    \/ \E t \in Tasks : BatchLoopHead(t)
    \/ \E t \in Tasks : BatchDownloadReturns(t)
    \/ \E t \in Tasks : BatchInspect(t)
    \/ \E t \in Tasks : BatchUpload(t)
    \/ \E t \in Tasks : BatchCleanup(t)

BatchSpecInit ==
    /\ OrchIdle /\ GateIdle /\ DlIdle /\ SelIdle /\ ProgIdle /\ CacheIdle /\ SweepIdle
    /\ EpIdle /\ CmdIdle /\ FuzzyIdle /\ BatchInit

BatchSpec == BatchSpecInit /\ [][BatchNext]_vars

\* ------------------------------------------------------------------------
\* Properties of concurrent tasks
\* ------------------------------------------------------------------------

\* C25: no task writes, uploads or removes a media file while it is the
\* res.filepath of another running task.
C25_NoSharedMediaFile ==
    \A o \in b_ops : o.users = {}

====
